---- MODULE Spec2Model ----
(***************************************************************************)
(* A model of the persistent B+tree of jsouthworth.net/go/btree with its   *)
(* transient editing mode.  Nodes, key arrays, child arrays and edit       *)
(* tokens are heap objects with identity, so that sharing between trees    *)
(* and in-place edits are observable.  Array indices are 0-based as in     *)
(* the source; sequence positions are index+1.                             *)
(***************************************************************************)
EXTENDS Integers, Sequences, FiniteSets, TLC

(* ---- scaled fan-out and exploration bounds ---- *)
\* maxLen of the source is 64; the model runs the same code with a small fan-out.
maxLen == 4
minLen == maxLen \div 2
\* expandLen of the source is 8; scaled with maxLen so that a transient leaf can be
\* full below maxLen.
expandLen == 1
maxIterDepth == 13
\* keys are 1..NumKeys, values 1..NumVals
NumKeys == 12
NumVals == 2
\* number of add/delete calls and of calls on a frozen transient explored after the
\* initial tree
MaxOps == 2
\* number of AsTransient calls explored
MaxForks == 1

Keys == 1..NumKeys
Vals == 1..NumVals
\* map entries: the element type of treemap
Elem == [k : Keys, v : Vals]
\* the zero value of the element type
Zero == [k |-> 0, v |-> 0]

cmp(a, b) == IF a.k < b.k THEN -1 ELSE IF a.k > b.k THEN 1 ELSE 0
eq(a, b) == cmp(a, b) = 0 /\ a.v = b.v

Min(a, b) == IF a < b THEN a ELSE b
Max(a, b) == IF a > b THEN a ELSE b

(* ---- return protocol ---- *)
returnUnchanged == "unchanged"
returnEarly == "early"
returnReplaced == "replaced"
returnOne == "one"
returnTwo == "two"
returnThree == "three"

nodeKindInternal == "internal"
nodeKindLeaf == "leaf"

\* the nil pointer
Nil == 0

(* ---- the heap ----
   H.nodes : sequence of node records [kind, len, edit, keys, children]
   H.keys  : sequence of key arrays (each a sequence, its length the slice length)
   H.kids  : sequence of child arrays (node ids, Nil for an unset slot)
   H.edits : sequence of edit-token cells (BOOLEAN)
   H.log   : the writes done to already-allocated objects, in program order
   H.panicked : a slice index ran out of range                              *)
emptyEdit == 1

nodeReturn(H, status, n0, n1, n2) == [H |-> H, status |-> status, nodes |-> <<n0, n1, n2>>]

\* the function f on 1..n as a tuple
tupleOf(f) == SubSeq(f, 1, Len(f))

Pad(s, size, z) == tupleOf([i \in 1..size |-> IF i <= Len(s) THEN s[i] ELSE z])

\* source[from:to], guarded by the stitcher's  to >= from
Slice(s, from, to) == IF to >= from THEN SubSeq(s, from + 1, to) ELSE <<>>

\* allocation of a key array holding `content`; a stitcher that runs past the
\* target's end is an index-out-of-range panic
allocKeys(H, size, content) ==
    [H EXCEPT !.keys = Append(@, Pad(content, size, Zero)),
              !.panicked = @ \/ Len(content) > size]

allocKids(H, size, content) ==
    [H EXCEPT !.kids = Append(@, Pad(content, size, Nil)),
              !.panicked = @ \/ Len(content) > size]

atomic_NewBool(H, val) == [H EXCEPT !.edits = Append(@, val)]

logEntry(obj, id, idx, e, c) == [obj |-> obj, id |-> id, idx |-> idx, e |-> e, c |-> c]

\* n.keys[i] = val on an existing array
keyWrite(H, a, i, val) ==
    IF i + 1 > Len(H.keys[a]) THEN [H EXCEPT !.panicked = TRUE]
    ELSE [H EXCEPT !.keys[a][i + 1] = val,
                   !.log = Append(@, logEntry("keys", a, i, val, 0))]

\* copy(arr[off:], vals): min(len(arr)-off, len(vals)) slots, lowest index first
keyCopy(H, a, off, vals) ==
    LET m == Min(Len(vals), Len(H.keys[a]) - off) IN
    IF m <= 0 THEN H
    ELSE [H EXCEPT !.keys[a] = tupleOf([i \in 1..Len(@) |->
                                  IF i > off /\ i <= off + m THEN vals[i - off] ELSE @[i]]),
                   !.log = @ \o tupleOf([j \in 1..m |->
                                  logEntry("keys", a, off + j - 1, vals[j], 0)])]

childWrite(H, a, i, val) ==
    IF i + 1 > Len(H.kids[a]) THEN [H EXCEPT !.panicked = TRUE]
    ELSE [H EXCEPT !.kids[a][i + 1] = val,
                   !.log = Append(@, logEntry("kids", a, i, Zero, val))]

childCopy(H, a, off, vals) ==
    LET m == Min(Len(vals), Len(H.kids[a]) - off) IN
    IF m <= 0 THEN H
    ELSE [H EXCEPT !.kids[a] = tupleOf([i \in 1..Len(@) |->
                                  IF i > off /\ i <= off + m THEN vals[i - off] ELSE @[i]]),
                   !.log = @ \o tupleOf([j \in 1..m |->
                                  logEntry("kids", a, off + j - 1, Zero, vals[j])])]

\* n.len = val on an existing node
lenWrite(H, n, val) ==
    [H EXCEPT !.nodes[n].len = val,
              !.log = Append(@, logEntry("len", n, 0, Zero, val))]

(* ---- node accessors ---- *)
nodeLen(H, n) == H.nodes[n].len
keysOf(H, n) == H.keys[H.nodes[n].keys]
kidsOf(H, n) == H.kids[H.nodes[n].children]
keyAt(H, n, i) == H.keys[H.nodes[n].keys][i + 1]
childAt(H, n, i) == H.kids[H.nodes[n].children][i + 1]
sizeOfKeyArray(H, n) == Len(H.keys[H.nodes[n].keys])
sizeOfChildArray(H, n) == Len(H.kids[H.nodes[n].children])
isInternalNode(H, n) == H.nodes[n].kind = nodeKindInternal
isLeafNode(H, n) == H.nodes[n].kind = nodeKindLeaf

\* a node that takes itself for editable whatever its token says
isEditable_always(H, n) == TRUE

isEditable(H, n) == H.edits[H.nodes[n].edit]

maxKey(H, n) == keyAt(H, n, nodeLen(H, n) - 1)

\* a join that also fills a node to maxLen entries
canJoin_upToMax(H, n, newLen) == n # Nil /\ (nodeLen(H, n) + newLen) <= maxLen

canJoin(H, n, newLen) == n # Nil /\ (nodeLen(H, n) + newLen) < maxLen

(* ---- search ---- *)
\* sort.Search(n.len, func(i) { cmp(n.keys[i], key) >= 0 }): the binary search
RECURSIVE sortSearch(_, _, _, _, _)
sortSearch(H, n, key, i, j) ==
    IF i < j
    THEN LET h == (i + j) \div 2 IN
         IF ~(cmp(keyAt(H, n, h), key) >= 0)
         THEN sortSearch(H, n, key, h + 1, j)
         ELSE sortSearch(H, n, key, i, h)
    ELSE i

searchFirst(H, n, key) == sortSearch(H, n, key, 0, nodeLen(H, n))

\* a search that takes the insertion point for a hit without comparing
search_noCompare(H, n, key) ==
    LET i == searchFirst(H, n, key) IN
    IF i < nodeLen(H, n) THEN i ELSE (-i) - 1

search(H, n, key) ==
    LET i == searchFirst(H, n, key) IN
    IF i < nodeLen(H, n) /\ cmp(key, keyAt(H, n, i)) = 0 THEN i ELSE (-i) - 1

\* a search that takes no cmp-equal element for an equal one
searchEq_neverEq(H, n, key) ==
    LET i == searchFirst(H, n, key) IN
    IF i < nodeLen(H, n) /\ cmp(key, keyAt(H, n, i)) = 0
    THEN [idx |-> (-i) - 1, replace |-> TRUE]
    ELSE [idx |-> (-i) - 1, replace |-> FALSE]

\* a search that takes a cmp-equal element for an equal one
searchEq_cmpOnly(H, n, key) ==
    LET i == searchFirst(H, n, key) IN
    IF i < nodeLen(H, n) /\ cmp(key, keyAt(H, n, i)) = 0
    THEN [idx |-> i, replace |-> FALSE]
    ELSE [idx |-> (-i) - 1, replace |-> FALSE]

searchEq(H, n, key) ==
    LET i == searchFirst(H, n, key) IN
    IF i < nodeLen(H, n) /\ cmp(key, keyAt(H, n, i)) = 0
    THEN IF eq(key, keyAt(H, n, i))
         THEN [idx |-> i, replace |-> FALSE]
         ELSE [idx |-> (-i) - 1, replace |-> TRUE]
    ELSE [idx |-> (-i) - 1, replace |-> FALSE]

(* ---- find ---- *)
\* a find that returns the key it was given
leafNode_find_probe(H, n, key) ==
    LET v == search(H, n, key) IN
    [out |-> IF v >= 0 THEN key ELSE Zero, found |-> v >= 0]

leafNode_find(H, n, key) ==
    LET v == search(H, n, key) IN
    [out |-> IF v >= 0 THEN keyAt(H, n, v) ELSE Zero, found |-> v >= 0]

RECURSIVE node_find(_, _, _)
internalNode_find(H, n, key) ==
    LET idx == search(H, n, key) IN
    IF idx >= 0 THEN [out |-> keyAt(H, n, idx), found |-> TRUE]
    ELSE LET i2 == (-idx) - 1 IN
         IF i2 = nodeLen(H, n) THEN [out |-> Zero, found |-> FALSE]
         ELSE node_find(H, childAt(H, n, i2), key)

node_find(H, n, key) ==
    IF H.nodes[n].kind = nodeKindLeaf THEN leafNode_find(H, n, key)
    ELSE internalNode_find(H, n, key)

(* ---- allocation ---- *)
\* newLeaf(len, edit) with its keys filled by the caller's copies; the array is
\* over-allocated under a live transient
newLeaf(H, len, edit, content) ==
    LET sz == IF H.edits[edit] THEN Min(maxLen, len + expandLen) ELSE len
        H1 == allocKeys(H, sz, content)
        nd == [kind |-> nodeKindLeaf, len |-> len, edit |-> edit,
               keys |-> Len(H1.keys), children |-> Nil]
        H2 == [H1 EXCEPT !.nodes = Append(@, nd)]
    IN [H |-> H2, n |-> Len(H2.nodes)]

\* copy(dst.keys[0:], src) into a fresh leaf: truncated to the target, never a panic
newLeafCopy(H, len, edit, content) ==
    LET sz == IF H.edits[edit] THEN Min(maxLen, len + expandLen) ELSE len
    IN newLeaf(H, len, edit, SubSeq(content, 1, Min(Len(content), sz)))

\* newNode(len, edit) with keys and children filled by the caller's stitchers
newNode(H, len, edit, ks, cs) ==
    LET H1 == allocKids(allocKeys(H, len, ks), len, cs)
        nd == [kind |-> nodeKindInternal, len |-> len, edit |-> edit,
               keys |-> Len(H1.keys), children |-> Len(H1.kids)]
        H2 == [H1 EXCEPT !.nodes = Append(@, nd)]
    IN [H |-> H2, n |-> Len(H2.nodes)]

(* ---- leaf add ---- *)
leafNode_modifyInPlace(H, n, ins, key, replace) ==
    LET a == H.nodes[n].keys
        len == nodeLen(H, n)
    IN IF replace
       THEN nodeReturn(keyWrite(H, a, ins, key), returnReplaced, n, Nil, Nil)
       ELSE IF ins = len
       THEN nodeReturn(lenWrite(keyWrite(H, a, len, key), n, len + 1),
                       returnOne, n, Nil, Nil)
       ELSE LET H1 == keyCopy(H, a, ins + 1, Slice(H.keys[a], ins, len))
                H2 == keyWrite(H1, a, ins, key)
            IN nodeReturn(lenWrite(H2, n, len + 1), returnEarly, Nil, Nil, Nil)

\* a copying insert that reports an edit in place
leafNode_copyAndInsertNode_early(H, n, ins, key, edit) ==
    LET len == nodeLen(H, n)
        ks == keysOf(H, n)
        nl == newLeaf(H, len + 1, edit,
                      Slice(ks, 0, ins) \o <<key>> \o Slice(ks, ins, len))
    IN nodeReturn(nl.H, returnEarly, Nil, Nil, Nil)

leafNode_copyAndInsertNode(H, n, ins, key, edit) ==
    LET len == nodeLen(H, n)
        ks == keysOf(H, n)
        nl == newLeaf(H, len + 1, edit,
                      Slice(ks, 0, ins) \o <<key>> \o Slice(ks, ins, len))
    IN nodeReturn(nl.H, returnOne, nl.n, Nil, Nil)

\* a replace that reports an insert
leafNode_copyAndReplaceNode_asInsert(H, n, ins, key, edit) ==
    LET len == nodeLen(H, n)
        nl == newLeafCopy(H, len, edit, keysOf(H, n))
        H1 == [nl.H EXCEPT !.keys[Len(nl.H.keys)][ins + 1] = key]
    IN nodeReturn(H1, returnOne, nl.n, Nil, Nil)

leafNode_copyAndReplaceNode(H, n, ins, key, edit) ==
    LET len == nodeLen(H, n)
        nl == newLeafCopy(H, len, edit, keysOf(H, n))
        H1 == [nl.H EXCEPT !.keys[Len(nl.H.keys)][ins + 1] = key]
    IN nodeReturn(H1, returnReplaced, nl.n, Nil, Nil)

leafNode_split(H, n, ins, key, edit) ==
    LET len == nodeLen(H, n)
        ks == keysOf(H, n)
        firstHalf == (len + 1) \div 2
        secondHalf == len + 1 - firstHalf
    IN IF ins < firstHalf
       THEN LET n1 == newLeaf(H, firstHalf, edit,
                       Slice(ks, 0, ins) \o <<key>> \o Slice(ks, ins, firstHalf - 1))
                n2 == newLeafCopy(n1.H, secondHalf, edit, Slice(ks, firstHalf - 1, len))
            IN nodeReturn(n2.H, returnTwo, n1.n, n2.n, Nil)
       ELSE LET n1 == newLeafCopy(H, firstHalf, edit, Slice(ks, 0, firstHalf))
                n2 == newLeaf(n1.H, secondHalf, edit,
                       Slice(ks, firstHalf, ins) \o <<key>> \o Slice(ks, ins, len))
            IN nodeReturn(n2.H, returnTwo, n1.n, n2.n, Nil)

leafNode_add(H, n, key, edit) ==
    LET se == searchEq(H, n, key)
        ins == (-se.idx) - 1
    IN IF se.idx >= 0 /\ ~se.replace
       THEN nodeReturn(H, returnUnchanged, Nil, Nil, Nil)
       ELSE IF isEditable(H, n) /\ (nodeLen(H, n) < sizeOfKeyArray(H, n) \/ se.replace)
       THEN leafNode_modifyInPlace(H, n, ins, key, se.replace)
       ELSE IF se.replace
       THEN leafNode_copyAndReplaceNode(H, n, ins, key, edit)
       ELSE IF nodeLen(H, n) < maxLen
       THEN leafNode_copyAndInsertNode(H, n, ins, key, edit)
       ELSE leafNode_split(H, n, ins, key, edit)

(* ---- internal add ---- *)
internalNode_modifyInPlace(H, n, ins, new, status) ==
    LET H1 == keyWrite(H, H.nodes[n].keys, ins, maxKey(H, new))
        H2 == childWrite(H1, H.nodes[n].children, ins, new)
    IN IF ins = nodeLen(H2, n) - 1 /\ eq(maxKey(H2, new), maxKey(H2, n))
       THEN nodeReturn(H2, status, n, Nil, Nil)
       ELSE IF status = returnReplaced
       THEN nodeReturn(H2, status, n, Nil, Nil)
       ELSE nodeReturn(H2, returnEarly, Nil, Nil, Nil)

\* a copy that always reuses the keys array and so never updates the separator
internalNode_copyAndModify_keepKeys(H, n, ins, edit, new, status) ==
    LET len == nodeLen(H, n)
        H2 == allocKids(H, len,
                 [i \in 1..Min(len, Len(kidsOf(H, n))) |->
                    IF i = ins + 1 THEN new ELSE kidsOf(H, n)[i]])
        nd == [kind |-> nodeKindInternal, len |-> len, edit |-> edit,
               keys |-> H.nodes[n].keys, children |-> Len(H2.kids)]
        H3 == [H2 EXCEPT !.nodes = Append(@, nd)]
    IN nodeReturn(H3, status, Len(H3.nodes), Nil, Nil)

\* the keys array is reused when the separator is unchanged, the children array
\* when the child pointer is unchanged
internalNode_copyAndModify(H, n, ins, edit, new, status) ==
    LET len == nodeLen(H, n)
        shareKeys == eq(maxKey(H, new), keyAt(H, n, ins))
        H1 == IF shareKeys THEN H
              ELSE allocKeys(H, len,
                     [i \in 1..Min(len, Len(keysOf(H, n))) |->
                        IF i = ins + 1 THEN maxKey(H, new) ELSE keysOf(H, n)[i]])
        newKeys == IF shareKeys THEN H.nodes[n].keys ELSE Len(H1.keys)
        shareKids == new = childAt(H, n, ins)
        H2 == IF shareKids THEN H1
              ELSE allocKids(H1, len,
                     [i \in 1..Min(len, Len(kidsOf(H, n))) |->
                        IF i = ins + 1 THEN new ELSE kidsOf(H, n)[i]])
        newChildren == IF shareKids THEN H.nodes[n].children ELSE Len(H2.kids)
        nd == [kind |-> nodeKindInternal, len |-> len, edit |-> edit,
               keys |-> newKeys, children |-> newChildren]
        H3 == [H2 EXCEPT !.nodes = Append(@, nd)]
    IN nodeReturn(H3, status, Len(H3.nodes), Nil, Nil)

\* an append that hangs the two nodes of a split under a node of their own
internalNode_copyAndAppend_wrap(H, n, ins, n1, n2, edit) ==
    LET len == nodeLen(H, n)
        ks == keysOf(H, n)
        cs == kidsOf(H, n)
        w == newNode(H, 2, edit, <<maxKey(H, n1), maxKey(H, n2)>>, <<n1, n2>>)
        nn == newNode(w.H, len, edit,
                Slice(ks, 0, ins) \o <<maxKey(H, n2)>> \o Slice(ks, ins + 1, len),
                Slice(cs, 0, ins) \o <<w.n>> \o Slice(cs, ins + 1, len))
    IN nodeReturn(nn.H, returnOne, nn.n, Nil, Nil)

internalNode_copyAndAppend(H, n, ins, n1, n2, edit) ==
    LET len == nodeLen(H, n)
        ks == keysOf(H, n)
        cs == kidsOf(H, n)
        nn == newNode(H, len + 1, edit,
                Slice(ks, 0, ins) \o <<maxKey(H, n1), maxKey(H, n2)>> \o Slice(ks, ins + 1, len),
                Slice(cs, 0, ins) \o <<n1, n2>> \o Slice(cs, ins + 1, len))
    IN nodeReturn(nn.H, returnOne, nn.n, Nil, Nil)

\* a split that halves as the leaf does, wherever the child's two nodes fall
internalNode_split_asLeaf(H, n, ins, n1, n2, edit) ==
    LET len == nodeLen(H, n)
        ks == keysOf(H, n)
        cs == kidsOf(H, n)
        h0 == (len + 1) \div 2
        half1 == h0
        half2 == len + 1 - half1
        m1 == maxKey(H, n1)
        m2 == maxKey(H, n2)
    IN IF ins < half1
       THEN LET node1 == newNode(H, half1, edit,
                           Slice(ks, 0, ins) \o <<m1, m2>> \o Slice(ks, ins + 1, half1 - 1),
                           Slice(cs, 0, ins) \o <<n1, n2>> \o Slice(cs, ins + 1, half1 - 1))
                r2k == Slice(ks, half1 - 1, len)
                r2c == Slice(cs, half1 - 1, len)
                node2 == newNode(node1.H, half2, edit,
                           SubSeq(r2k, 1, Min(Len(r2k), half2)),
                           SubSeq(r2c, 1, Min(Len(r2c), half2)))
            IN nodeReturn(node2.H, returnTwo, node1.n, node2.n, Nil)
       ELSE LET node1 == newNode(H, half1, edit, Slice(ks, 0, half1), Slice(cs, 0, half1))
                node2 == newNode(node1.H, half2, edit,
                           Slice(ks, half1, ins) \o <<m1, m2>> \o Slice(ks, ins + 1, len),
                           Slice(cs, half1, ins) \o <<n1, n2>> \o Slice(cs, ins + 1, len))
            IN nodeReturn(node2.H, returnTwo, node1.n, node2.n, Nil)

internalNode_split(H, n, ins, n1, n2, edit) ==
    LET len == nodeLen(H, n)
        ks == keysOf(H, n)
        cs == kidsOf(H, n)
        h0 == (len + 1) \div 2
        half1 == IF ins + 1 = h0 THEN h0 + 1 ELSE h0
        half2 == len + 1 - half1
        m1 == maxKey(H, n1)
        m2 == maxKey(H, n2)
    IN IF ins < half1
       THEN LET node1 == newNode(H, half1, edit,
                           Slice(ks, 0, ins) \o <<m1, m2>> \o Slice(ks, ins + 1, half1 - 1),
                           Slice(cs, 0, ins) \o <<n1, n2>> \o Slice(cs, ins + 1, half1 - 1))
                r2k == Slice(ks, half1 - 1, len)
                r2c == Slice(cs, half1 - 1, len)
                node2 == newNode(node1.H, half2, edit,
                           SubSeq(r2k, 1, Min(Len(r2k), half2)),
                           SubSeq(r2c, 1, Min(Len(r2c), half2)))
            IN nodeReturn(node2.H, returnTwo, node1.n, node2.n, Nil)
       ELSE LET node1 == newNode(H, half1, edit, Slice(ks, 0, half1), Slice(cs, 0, half1))
                node2 == newNode(node1.H, half2, edit,
                           Slice(ks, half1, ins) \o <<m1, m2>> \o Slice(ks, ins + 1, len),
                           Slice(cs, half1, ins) \o <<n1, n2>> \o Slice(cs, ins + 1, len))
            IN nodeReturn(node2.H, returnTwo, node1.n, node2.n, Nil)

RECURSIVE node_add(_, _, _, _)
internalNode_add(H, n, key, edit) ==
    LET se == searchEq(H, n, key) IN
    IF se.idx >= 0 THEN nodeReturn(H, returnUnchanged, Nil, Nil, Nil)
    ELSE LET i0 == (-se.idx) - 1
             ins == IF i0 = nodeLen(H, n) THEN nodeLen(H, n) - 1 ELSE i0
             ret == node_add(H, childAt(H, n, ins), key, edit)
         IN IF ret.status = returnUnchanged THEN ret
            ELSE IF ret.status = returnEarly THEN ret
            ELSE IF ret.status \in {returnOne, returnReplaced}
            THEN IF isEditable(ret.H, n)
                 THEN internalNode_modifyInPlace(ret.H, n, ins, ret.nodes[1], ret.status)
                 ELSE internalNode_copyAndModify(ret.H, n, ins, edit, ret.nodes[1], ret.status)
            ELSE IF nodeLen(ret.H, n) < maxLen
                 THEN internalNode_copyAndAppend(ret.H, n, ins, ret.nodes[1], ret.nodes[2], edit)
                 ELSE internalNode_split(ret.H, n, ins, ret.nodes[1], ret.nodes[2], edit)

node_add(H, n, key, edit) ==
    IF H.nodes[n].kind = nodeKindLeaf THEN leafNode_add(H, n, key, edit)
    ELSE internalNode_add(H, n, key, edit)

(* ---- leaf remove ---- *)
\* a leaf that never asks for a merge
needsMerge_never(newLen, left, right) == FALSE

needsMerge(newLen, left, right) == newLen < minLen /\ (left # Nil \/ right # Nil)

\* clear(arr[from:])
keyClear(H, a, from) ==
    keyCopy(H, a, from, tupleOf([i \in 1..Max(0, Len(H.keys[a]) - from) |-> Zero]))

leafNode_removeInPlace(H, n, idx, newLen, left, right) ==
    LET a == H.nodes[n].keys
        H1 == keyCopy(H, a, idx, Slice(H.keys[a], idx + 1, nodeLen(H, n)))
        H2 == lenWrite(H1, n, newLen)
        H3 == keyWrite(H2, a, newLen, Zero)
    IN IF idx = newLen
       THEN nodeReturn(H3, returnThree, left, n, right)
       ELSE nodeReturn(H3, returnEarly, Nil, Nil, Nil)

leafNode_copyAndRemoveIdx(H, n, idx, newLen, left, right, edit) ==
    LET ks == keysOf(H, n)
        center == newLeafCopy(H, newLen, edit,
                    Slice(ks, 0, idx) \o Slice(ks, idx + 1, Len(ks)))
    IN nodeReturn(center.H, returnThree, left, center.n, right)

leafNode_joinLeft(H, n, idx, newLen, left, right, edit) ==
    LET ks == keysOf(H, n)
        join == newLeaf(H, nodeLen(H, left) + newLen, edit,
                  Slice(keysOf(H, left), 0, nodeLen(H, left))
                  \o Slice(ks, 0, idx) \o Slice(ks, idx + 1, nodeLen(H, n)))
    IN nodeReturn(join.H, returnThree, Nil, join.n, right)

leafNode_joinRight(H, n, idx, newLen, left, right, edit) ==
    LET ks == keysOf(H, n)
        join == newLeaf(H, nodeLen(H, right) + newLen, edit,
                  Slice(ks, 0, idx) \o Slice(ks, idx + 1, nodeLen(H, n))
                  \o Slice(keysOf(H, right), 0, nodeLen(H, right)))
    IN nodeReturn(join.H, returnThree, left, join.n, Nil)

leafNode_borrowLeft(H, n, idx, newLen, left, right, edit) ==
    LET leftLen == nodeLen(H, left)
        totalLen == leftLen + newLen
        newLeftLen == totalLen \div 2
        newCenterLen == totalLen - newLeftLen
        leftTail == leftLen - newLeftLen
        a == H.nodes[n].keys
        inPlace == isEditable(H, n) /\ newCenterLen <= sizeOfKeyArray(H, n)
        \* prepend to center
        C1 == keyCopy(H, a, leftTail + idx, Slice(H.keys[a], idx + 1, nodeLen(H, n)))
        C2 == keyCopy(C1, a, leftTail, Slice(C1.keys[a], 0, idx))
        C3 == keyCopy(C2, a, 0, Slice(keysOf(C2, left), newLeftLen, leftLen))
        C4 == keyClear(lenWrite(C3, n, newCenterLen), a, newCenterLen)
        fresh == newLeaf(H, newCenterLen, edit,
                   Slice(keysOf(H, left), newLeftLen, leftLen)
                   \o Slice(keysOf(H, n), 0, idx)
                   \o Slice(keysOf(H, n), idx + 1, nodeLen(H, n)))
        Hc == IF inPlace THEN C4 ELSE fresh.H
        newCenter == IF inPlace THEN n ELSE fresh.n
        \* shrink left
        leftEd == isEditable(Hc, left)
        L1 == keyClear(lenWrite(Hc, left, newLeftLen), Hc.nodes[left].keys, newLeftLen)
        freshL == newLeafCopy(Hc, newLeftLen, edit, Slice(keysOf(Hc, left), 0, newLeftLen))
        Hl == IF leftEd THEN L1 ELSE freshL.H
        newLeft == IF leftEd THEN left ELSE freshL.n
    IN nodeReturn(Hl, returnThree, newLeft, newCenter, right)

leafNode_borrowRight(H, n, idx, newLen, left, right, edit) ==
    LET rightLen == nodeLen(H, right)
        totalLen == newLen + rightLen
        newCenterLen == totalLen \div 2
        newRightLen == totalLen - newCenterLen
        rightHead == rightLen - newRightLen
        a == H.nodes[n].keys
        inPlace == isEditable(H, n) /\ newCenterLen <= sizeOfKeyArray(H, n)
        \* append to center: a stitcher on n.keys starting at idx
        s1 == Slice(H.keys[a], idx + 1, nodeLen(H, n))
        s2 == Slice(keysOf(H, right), 0, rightHead)
        C0 == IF idx + Len(s1) + Len(s2) > Len(H.keys[a])
              THEN [H EXCEPT !.panicked = TRUE] ELSE H
        C1 == keyCopy(C0, a, idx, s1)
        C2 == keyCopy(C1, a, idx + Len(s1), s2)
        C3 == keyClear(lenWrite(C2, n, newCenterLen), a, newCenterLen)
        fresh == newLeaf(H, newCenterLen, edit,
                   Slice(keysOf(H, n), 0, idx)
                   \o Slice(keysOf(H, n), idx + 1, nodeLen(H, n))
                   \o Slice(keysOf(H, right), 0, rightHead))
        Hc == IF inPlace THEN C3 ELSE fresh.H
        newCenter == IF inPlace THEN n ELSE fresh.n
        \* cut head from right
        rightEd == isEditable(Hc, right)
        ra == Hc.nodes[right].keys
        R1 == keyCopy(Hc, ra, 0, Slice(Hc.keys[ra], rightHead, rightLen))
        R2 == keyClear(lenWrite(R1, right, newRightLen), ra, newRightLen)
        freshR == newLeafCopy(Hc, newRightLen, edit, Slice(keysOf(Hc, right), rightHead, rightLen))
        Hr == IF rightEd THEN R2 ELSE freshR.H
        newRight == IF rightEd THEN right ELSE freshR.n
    IN nodeReturn(Hr, returnThree, left, newCenter, newRight)

\* a remove that takes only an eq element for the one to remove
leafNode_remove_eqOnly(H, n, key, left, right, edit) ==
    LET idx == search(H, n, key)
        newLen == nodeLen(H, n) - 1
    IN IF idx < 0 \/ ~eq(key, keyAt(H, n, Max(idx, 0)))
       THEN nodeReturn(H, returnUnchanged, Nil, Nil, Nil)
       ELSE IF ~needsMerge(newLen, left, right)
       THEN IF isEditable(H, n)
            THEN leafNode_removeInPlace(H, n, idx, newLen, left, right)
            ELSE leafNode_copyAndRemoveIdx(H, n, idx, newLen, left, right, edit)
       ELSE IF canJoin(H, left, newLen)
       THEN leafNode_joinLeft(H, n, idx, newLen, left, right, edit)
       ELSE IF canJoin(H, right, newLen)
       THEN leafNode_joinRight(H, n, idx, newLen, left, right, edit)
       ELSE IF left # Nil /\ (isEditable(H, left) \/ right = Nil
                               \/ nodeLen(H, left) >= nodeLen(H, right))
       THEN leafNode_borrowLeft(H, n, idx, newLen, left, right, edit)
       ELSE IF right # Nil
       THEN leafNode_borrowRight(H, n, idx, newLen, left, right, edit)
       ELSE nodeReturn([H EXCEPT !.panicked = TRUE], returnUnchanged, Nil, Nil, Nil)

leafNode_remove(H, n, key, left, right, edit) ==
    LET idx == search(H, n, key)
        newLen == nodeLen(H, n) - 1
    IN IF idx < 0 THEN nodeReturn(H, returnUnchanged, Nil, Nil, Nil)
       ELSE IF ~needsMerge(newLen, left, right)
       THEN IF isEditable(H, n)
            THEN leafNode_removeInPlace(H, n, idx, newLen, left, right)
            ELSE leafNode_copyAndRemoveIdx(H, n, idx, newLen, left, right, edit)
       ELSE IF canJoin(H, left, newLen)
       THEN leafNode_joinLeft(H, n, idx, newLen, left, right, edit)
       ELSE IF canJoin(H, right, newLen)
       THEN leafNode_joinRight(H, n, idx, newLen, left, right, edit)
       ELSE IF left # Nil /\ (isEditable(H, left) \/ right = Nil
                               \/ nodeLen(H, left) >= nodeLen(H, right))
       THEN leafNode_borrowLeft(H, n, idx, newLen, left, right, edit)
       ELSE IF right # Nil
       THEN leafNode_borrowRight(H, n, idx, newLen, left, right, edit)
       ELSE nodeReturn([H EXCEPT !.panicked = TRUE], returnUnchanged, Nil, Nil, Nil)

(* ---- internal remove ---- *)
needsRebalance(newLen, left, right) == newLen < minLen /\ (left # Nil \/ right # Nil)

\* the one, two or three nodes a child's remove handed back, as stitched in by
\* copyOne: their max keys and the nodes themselves
retKeys(H, nodes) ==
    (IF nodes[1] # Nil THEN <<maxKey(H, nodes[1])>> ELSE <<>>)
    \o <<maxKey(H, nodes[2])>>
    \o (IF nodes[3] # Nil THEN <<maxKey(H, nodes[3])>> ELSE <<>>)

retKids(nodes) ==
    (IF nodes[1] # Nil THEN <<nodes[1]>> ELSE <<>>)
    \o <<nodes[2]>>
    \o (IF nodes[3] # Nil THEN <<nodes[3]>> ELSE <<>>)

\* both stitchers write into the node's own arrays, starting at max(idx-1, 0)
internalNode_removeInPlace(H, n, idx, newLen, nodes) ==
    LET ka == H.nodes[n].keys
        ca == H.nodes[n].children
        len == nodeLen(H, n)
        off == Max(idx - 1, 0)
        rk == retKeys(H, nodes)
        rc == retKids(nodes)
        tl == IF newLen # len /\ len >= idx + 2 THEN len - (idx + 2) ELSE 0
        P0 == IF off + Len(rk) + tl > Len(H.keys[ka])
                 \/ off + Len(rc) + tl > Len(H.kids[ca])
              THEN [H EXCEPT !.panicked = TRUE] ELSE H
        H1 == keyCopy(P0, ka, off, rk)
        H2 == keyCopy(H1, ka, off + Len(rk),
                      IF newLen # len THEN Slice(H1.keys[ka], idx + 2, len) ELSE <<>>)
        H3 == childCopy(H2, ca, off, rc)
        H4 == childCopy(H3, ca, off + Len(rc),
                        IF newLen # len THEN Slice(H3.kids[ca], idx + 2, len) ELSE <<>>)
    IN nodeReturn(lenWrite(H4, n, newLen), returnEarly, Nil, Nil, Nil)

\* keys[0:idx-1] ++ returned ++ keys[idx+2:len], the middle of every copying case
stitchKeys(H, n, idx, nodes) ==
    Slice(keysOf(H, n), 0, idx - 1) \o retKeys(H, nodes)
    \o Slice(keysOf(H, n), idx + 2, nodeLen(H, n))

stitchKids(H, n, idx, nodes) ==
    Slice(kidsOf(H, n), 0, idx - 1) \o retKids(nodes)
    \o Slice(kidsOf(H, n), idx + 2, nodeLen(H, n))

internalNode_copyAndRemoveIdx(H, n, idx, newLen, left, right, edit, nodes) ==
    LET newCenter == newNode(H, newLen, edit,
                       stitchKeys(H, n, idx, nodes), stitchKids(H, n, idx, nodes))
    IN nodeReturn(newCenter.H, returnThree, left, newCenter.n, right)

internalNode_joinLeft(H, n, idx, newLen, left, right, edit, nodes) ==
    LET ll == nodeLen(H, left)
        join == newNode(H, ll + newLen, edit,
                  Slice(keysOf(H, left), 0, ll) \o stitchKeys(H, n, idx, nodes),
                  Slice(kidsOf(H, left), 0, ll) \o stitchKids(H, n, idx, nodes))
    IN nodeReturn(join.H, returnThree, Nil, join.n, right)

internalNode_joinRight(H, n, idx, newLen, left, right, edit, nodes) ==
    LET rl == nodeLen(H, right)
        join == newNode(H, newLen + rl, edit,
                  stitchKeys(H, n, idx, nodes) \o Slice(keysOf(H, right), 0, rl),
                  stitchKids(H, n, idx, nodes) \o Slice(kidsOf(H, right), 0, rl))
    IN nodeReturn(join.H, returnThree, left, join.n, Nil)

internalNode_borrowLeft(H, n, idx, newLen, left, right, edit, nodes) ==
    LET ll == nodeLen(H, left)
        totalLen == ll + newLen
        newLeftLen == totalLen \div 2
        newCenterLen == totalLen - newLeftLen
        newLeft == newNode(H, newLeftLen, edit,
                     Slice(keysOf(H, left), 0, newLeftLen),
                     Slice(kidsOf(H, left), 0, newLeftLen))
        newCenter == newNode(newLeft.H, newCenterLen, edit,
                       Slice(keysOf(H, left), newLeftLen, ll) \o stitchKeys(H, n, idx, nodes),
                       Slice(kidsOf(H, left), newLeftLen, ll) \o stitchKids(H, n, idx, nodes))
    IN nodeReturn(newCenter.H, returnThree, newLeft.n, newCenter.n, right)

internalNode_borrowRight(H, n, idx, newLen, left, right, edit, nodes) ==
    LET rl == nodeLen(H, right)
        totalLen == newLen + rl
        newCenterLen == totalLen \div 2
        newRightLen == totalLen - newCenterLen
        rightHead == rl - newRightLen
        newCenter == newNode(H, newCenterLen, edit,
                       stitchKeys(H, n, idx, nodes) \o Slice(keysOf(H, right), 0, rightHead),
                       stitchKids(H, n, idx, nodes) \o Slice(kidsOf(H, right), 0, rightHead))
        newRight == newNode(newCenter.H, newRightLen, edit,
                      Slice(keysOf(H, right), rightHead, rl),
                      Slice(kidsOf(H, right), rightHead, rl))
    IN nodeReturn(newRight.H, returnThree, left, newCenter.n, newRight.n)

RECURSIVE node_remove(_, _, _, _, _, _)
internalNode_removeInternal(H0, n, key, left, right, edit) ==
    LET s0 == search(H0, n, key)
        idx == IF s0 < 0 THEN (-s0) - 1 ELSE s0
        len == nodeLen(H0, n)
    IN IF idx = len THEN nodeReturn(H0, returnUnchanged, Nil, Nil, Nil)
       ELSE
       LET leftChild == IF idx > 0 THEN childAt(H0, n, idx - 1) ELSE Nil
           rightChild == IF idx < len - 1 THEN childAt(H0, n, idx + 1) ELSE Nil
           ret == node_remove(H0, childAt(H0, n, idx), key, leftChild, rightChild, edit)
           H == ret.H
           newLen == len - 1
                     - (IF leftChild # Nil THEN 1 ELSE 0)
                     - (IF rightChild # Nil THEN 1 ELSE 0)
                     + (IF ret.nodes[1] # Nil THEN 1 ELSE 0)
                     + (IF ret.nodes[2] # Nil THEN 1 ELSE 0)
                     + (IF ret.nodes[3] # Nil THEN 1 ELSE 0)
       IN IF ret.status = returnUnchanged THEN ret
          ELSE IF ret.status = returnEarly THEN ret
          ELSE IF ~needsRebalance(newLen, left, right)
          THEN IF isEditable(H, n) /\ idx < nodeLen(H, n) - 2
               THEN internalNode_removeInPlace(H, n, idx, newLen, ret.nodes)
               ELSE internalNode_copyAndRemoveIdx(H, n, idx, newLen, left, right, edit, ret.nodes)
          ELSE IF left # Nil /\ canJoin(H, left, newLen)
          THEN internalNode_joinLeft(H, n, idx, newLen, left, right, edit, ret.nodes)
          ELSE IF right # Nil /\ canJoin(H, right, newLen)
          THEN internalNode_joinRight(H, n, idx, newLen, left, right, edit, ret.nodes)
          ELSE IF left # Nil /\ (right = Nil \/ nodeLen(H, left) >= nodeLen(H, right))
          THEN internalNode_borrowLeft(H, n, idx, newLen, left, right, edit, ret.nodes)
          ELSE IF right # Nil
          THEN internalNode_borrowRight(H, n, idx, newLen, left, right, edit, ret.nodes)
          ELSE nodeReturn([H EXCEPT !.panicked = TRUE], returnUnchanged, Nil, Nil, Nil)

\* the siblings are asserted to be internal nodes
internalNode_remove(H, n, key, leftNode, rightNode, edit) ==
    LET bad == (leftNode # Nil /\ ~isInternalNode(H, leftNode))
               \/ (rightNode # Nil /\ ~isInternalNode(H, rightNode))
        H1 == IF bad THEN [H EXCEPT !.panicked = TRUE] ELSE H
    IN internalNode_removeInternal(H1, n, key, leftNode, rightNode, edit)

node_remove(H, n, key, left, right, edit) ==
    IF H.nodes[n].kind = nodeKindLeaf THEN leafNode_remove(H, n, key, left, right, edit)
    ELSE internalNode_remove(H, n, key, left, right, edit)

(* ---- the persistent handle ---- *)
\* a handle is a heap object; its identity is its id
newBTree(H, root, count, version, edit) ==
    [H |-> [H EXCEPT !.nh = @ + 1],
     t |-> [id |-> H.nh + 1, root |-> root, count |-> count,
            version |-> version, edit |-> edit]]

EmptyHeap ==
    [nodes |-> <<>>, keys |-> <<>>, kids |-> <<>>, edits |-> <<FALSE>>,
     log |-> <<>>, panicked |-> FALSE, nh |-> 0]

Empty ==
    LET nl == newLeaf(EmptyHeap, 0, emptyEdit, <<>>)
    IN newBTree(nl.H, nl.n, 0, 0, emptyEdit)

BTree_Contains(H, t, key) == node_find(H, t.root, key).found
BTree_At(H, t, key) == node_find(H, t.root, key).out
BTree_Find(H, t, key) == node_find(H, t.root, key)
BTree_Length(t) == t.count

\* the 2-ary root built from a split; a status the switch does not name falls
\* into the same branch and dereferences a nil node
growRoot(H, edit, nodes) ==
    IF nodes[1] = Nil \/ nodes[2] = Nil
    THEN [H |-> [H EXCEPT !.panicked = TRUE], n |-> Nil]
    ELSE newNode(H, 2, edit, <<maxKey(H, nodes[1]), maxKey(H, nodes[2])>>,
                 <<nodes[1], nodes[2]>>)

\* the root made of the two nodes of a split is the new tree's root
BTree_Add_newRoot(t, nr) ==
    IF nr.n = Nil THEN [H |-> nr.H, t |-> t]
    ELSE newBTree(nr.H, nr.n, t.count + 1, t.version + 1, t.edit)

\* an Add that updates the handle it was called on when it replaces an element
BTree_Add_switch_sameHandle(t, ret) ==
    IF ret.status = returnUnchanged THEN [H |-> ret.H, t |-> t]
    ELSE IF ret.status = returnOne
    THEN newBTree(ret.H, ret.nodes[1], t.count + 1, t.version + 1, t.edit)
    ELSE IF ret.status = returnReplaced
    THEN [H |-> ret.H, t |-> [t EXCEPT !.root = ret.nodes[1], !.version = @ + 1]]
    ELSE BTree_Add_newRoot(t, growRoot(ret.H, t.edit, ret.nodes))

\* switch ret.status, ret the return of t.root.add
BTree_Add_switch(t, ret) ==
    IF ret.status = returnUnchanged THEN [H |-> ret.H, t |-> t]
    ELSE IF ret.status = returnOne
    THEN newBTree(ret.H, ret.nodes[1], t.count + 1, t.version + 1, t.edit)
    ELSE IF ret.status = returnReplaced
    THEN newBTree(ret.H, ret.nodes[1], t.count, t.version + 1, t.edit)
    ELSE BTree_Add_newRoot(t, growRoot(ret.H, t.edit, ret.nodes))

BTree_Add(H, t, key) == BTree_Add_switch(t, node_add(H, t.root, key, t.edit))

\* a root left with a single child stays
collapseRoot_keep(H, newRoot) == newRoot

\* a root left with a single child is replaced by that child
collapseRoot(H, newRoot) ==
    IF isInternalNode(H, newRoot) /\ nodeLen(H, newRoot) = 1
    THEN childAt(H, newRoot, 0) ELSE newRoot

\* a Delete that makes a new handle also when nothing was removed
BTree_Delete_switch_fresh(t, ret) ==
    IF ret.status = returnUnchanged
    THEN newBTree(ret.H, t.root, t.count, t.version, t.edit)
    ELSE IF ret.nodes[2] = Nil THEN [H |-> [ret.H EXCEPT !.panicked = TRUE], t |-> t]
    ELSE newBTree(ret.H, collapseRoot(ret.H, ret.nodes[2]),
                  t.count - 1, t.version + 1, t.edit)

\* switch ret.status, ret the return of t.root.remove
BTree_Delete_switch(t, ret) ==
    IF ret.status = returnUnchanged THEN [H |-> ret.H, t |-> t]
    ELSE IF ret.nodes[2] = Nil THEN [H |-> [ret.H EXCEPT !.panicked = TRUE], t |-> t]
    ELSE newBTree(ret.H, collapseRoot(ret.H, ret.nodes[2]),
                  t.count - 1, t.version + 1, t.edit)

BTree_Delete(H, t, key) ==
    BTree_Delete_switch(t, node_remove(H, t.root, key, Nil, Nil, t.edit))

(* ---- the transient handle ---- *)
\* the TBTree object is mutable; NoTransient stands for "no transient was made"
NoTransient == [id |-> 0, root |-> Nil, count |-> 0, version |-> 0, edit |-> emptyEdit,
                orig |-> [id |-> 0, root |-> Nil, count |-> 0, version |-> 0,
                          edit |-> emptyEdit]]

\* an AsTransient that reuses the token of the tree it forks
BTree_AsTransient_sameToken(H, t) ==
    [H |-> [H EXCEPT !.nh = @ + 1, !.edits[t.edit] = TRUE],
     tt |-> [id |-> H.nh + 1, root |-> t.root, count |-> t.count,
             version |-> t.version, edit |-> t.edit, orig |-> t]]

BTree_AsTransient(H, t) ==
    LET H1 == atomic_NewBool(H, TRUE)
    IN [H |-> [H1 EXCEPT !.nh = @ + 1],
        tt |-> [id |-> H.nh + 1, root |-> t.root, count |-> t.count,
                version |-> t.version, edit |-> Len(H1.edits), orig |-> t]]

ErrTafterP == "transient used after persistent call"
\* the err of a call that returned
noErr == "returned"

\* a call that returned val, a call that panicked with e
returned(val) == [err |-> noErr, val |-> val]
panicked(e) == [err |-> e, val |-> Nil]

\* a transient whose token always reads true
ensureEditable_never(H, tt) == TRUE

\* ensureEditable panics with ErrTafterP when the token reads false; TRUE when it
\* returns
ensureEditable(H, tt) == H.edits[tt.edit]

TBTree_Contains(H, tt, key) ==
    IF ensureEditable(H, tt) THEN returned(node_find(H, tt.root, key).found)
    ELSE panicked(ErrTafterP)
TBTree_At(H, tt, key) ==
    IF ensureEditable(H, tt) THEN returned(node_find(H, tt.root, key).out)
    ELSE panicked(ErrTafterP)
TBTree_Find(H, tt, key) ==
    IF ensureEditable(H, tt) THEN returned(node_find(H, tt.root, key))
    ELSE panicked(ErrTafterP)
TBTree_Length(H, tt) ==
    IF ensureEditable(H, tt) THEN returned(tt.count) ELSE panicked(ErrTafterP)

\* a mutator's return with the err of a call that returned; a mutator that panicked
\* before it did anything
mutated(r) == [H |-> r.H, tt |-> r.tt, err |-> noErr]
refused(H, tt, e) == [H |-> H, tt |-> tt, err |-> e]

\* an Add that returns another transient handle when the root was split
TBTree_Add_newRoot_newHandle(tt, nr) ==
    IF nr.n = Nil THEN [H |-> nr.H, tt |-> tt]
    ELSE [H |-> [nr.H EXCEPT !.nh = @ + 1],
          tt |-> [tt EXCEPT !.id = nr.H.nh + 1, !.root = nr.n,
                            !.count = @ + 1, !.version = @ + 1]]

\* the root made of the two nodes of a split becomes the transient's root
TBTree_Add_newRoot(tt, nr) ==
    IF nr.n = Nil THEN [H |-> nr.H, tt |-> tt]
    ELSE [H |-> nr.H, tt |-> [tt EXCEPT !.root = nr.n,
                                       !.count = @ + 1, !.version = @ + 1]]

\* an Add that forgets the version when the root stays
TBTree_Add_switch_earlyKeepsVersion(tt, ret) ==
    IF ret.status = returnUnchanged THEN [H |-> ret.H, tt |-> tt]
    ELSE IF ret.status = returnReplaced
    THEN [H |-> ret.H, tt |-> [tt EXCEPT !.root = ret.nodes[1], !.version = @ + 1]]
    ELSE IF ret.status = returnEarly
    THEN [H |-> ret.H, tt |-> [tt EXCEPT !.count = @ + 1]]
    ELSE IF ret.status = returnOne
    THEN [H |-> ret.H, tt |-> [tt EXCEPT !.root = ret.nodes[1],
                                         !.count = @ + 1, !.version = @ + 1]]
    ELSE TBTree_Add_newRoot(tt, growRoot(ret.H, tt.edit, ret.nodes))

\* switch ret.status, ret the return of t.root.add
TBTree_Add_switch(tt, ret) ==
    IF ret.status = returnUnchanged THEN [H |-> ret.H, tt |-> tt]
    ELSE IF ret.status = returnReplaced
    THEN [H |-> ret.H, tt |-> [tt EXCEPT !.root = ret.nodes[1], !.version = @ + 1]]
    ELSE IF ret.status = returnEarly
    THEN [H |-> ret.H, tt |-> [tt EXCEPT !.count = @ + 1, !.version = @ + 1]]
    ELSE IF ret.status = returnOne
    THEN [H |-> ret.H, tt |-> [tt EXCEPT !.root = ret.nodes[1],
                                         !.count = @ + 1, !.version = @ + 1]]
    ELSE TBTree_Add_newRoot(tt, growRoot(ret.H, tt.edit, ret.nodes))

TBTree_Add(H, tt, key) ==
    IF ensureEditable(H, tt)
    THEN mutated(TBTree_Add_switch(tt, node_add(H, tt.root, key, tt.edit)))
    ELSE refused(H, tt, ErrTafterP)

\* a Delete that forgets the count when the root stays
TBTree_Delete_switch_earlyKeepsCount(tt, ret) ==
    IF ret.status = returnUnchanged THEN [H |-> ret.H, tt |-> tt]
    ELSE IF ret.status = returnEarly
    THEN [H |-> ret.H, tt |-> [tt EXCEPT !.version = @ + 1]]
    ELSE IF ret.nodes[2] = Nil THEN [H |-> [ret.H EXCEPT !.panicked = TRUE], tt |-> tt]
    ELSE [H |-> ret.H, tt |-> [tt EXCEPT !.root = collapseRoot(ret.H, ret.nodes[2]),
                                         !.count = @ - 1, !.version = @ + 1]]

\* a Delete that keeps a root left with a single child
TBTree_Delete_switch_noCollapse(tt, ret) ==
    IF ret.status = returnUnchanged THEN [H |-> ret.H, tt |-> tt]
    ELSE IF ret.status = returnEarly
    THEN [H |-> ret.H, tt |-> [tt EXCEPT !.count = @ - 1, !.version = @ + 1]]
    ELSE IF ret.nodes[2] = Nil THEN [H |-> [ret.H EXCEPT !.panicked = TRUE], tt |-> tt]
    ELSE [H |-> ret.H, tt |-> [tt EXCEPT !.root = ret.nodes[2],
                                         !.count = @ - 1, !.version = @ + 1]]

\* switch ret.status, ret the return of t.root.remove
TBTree_Delete_switch(tt, ret) ==
    IF ret.status = returnUnchanged THEN [H |-> ret.H, tt |-> tt]
    ELSE IF ret.status = returnEarly
    THEN [H |-> ret.H, tt |-> [tt EXCEPT !.count = @ - 1, !.version = @ + 1]]
    ELSE IF ret.nodes[2] = Nil THEN [H |-> [ret.H EXCEPT !.panicked = TRUE], tt |-> tt]
    ELSE [H |-> ret.H, tt |-> [tt EXCEPT !.root = collapseRoot(ret.H, ret.nodes[2]),
                                         !.count = @ - 1, !.version = @ + 1]]

TBTree_Delete(H, tt, key) ==
    IF ensureEditable(H, tt)
    THEN mutated(TBTree_Delete_switch(tt, node_remove(H, tt.root, key, Nil, Nil, tt.edit)))
    ELSE refused(H, tt, ErrTafterP)

\* a freeze that always makes a new handle
TBTree_AsPersistent_fresh(H1, tt) ==
    [H |-> newBTree(H1, tt.root, tt.count, tt.version, tt.edit).H,
     t |-> newBTree(H1, tt.root, tt.count, tt.version, tt.edit).t,
     err |-> noErr]

\* t.edit.Reset(false), then the original handle or a new one
TBTree_AsPersistent_reset(H1, tt) ==
    IF tt.root = tt.orig.root THEN [H |-> H1, t |-> tt.orig, err |-> noErr]
    ELSE [H |-> newBTree(H1, tt.root, tt.count, tt.version, tt.edit).H,
          t |-> newBTree(H1, tt.root, tt.count, tt.version, tt.edit).t,
          err |-> noErr]

\* a freeze that leaves the token as it is
TBTree_AsPersistent_noReset(H, tt) ==
    IF ensureEditable(H, tt)
    THEN TBTree_AsPersistent_reset(H, tt)
    ELSE [H |-> H, t |-> tt.orig, err |-> ErrTafterP]

TBTree_AsPersistent(H, tt) ==
    IF ensureEditable(H, tt)
    THEN TBTree_AsPersistent_reset([H EXCEPT !.edits[tt.edit] = FALSE], tt)
    ELSE [H |-> H, t |-> tt.orig, err |-> ErrTafterP]

(* ---- the iterator ---- *)
makeIterator(n) ==
    [depth |-> 0,
     stack |-> tupleOf([i \in 1..maxIterDepth |->
                  IF i = 1 THEN [n |-> n, cur |-> 0] ELSE [n |-> Nil, cur |-> 0]])]

\* a push that starts the pushed node at its second slot
pushNode_fromOne(it, n) ==
    [depth |-> it.depth + 1,
     stack |-> [it.stack EXCEPT ![it.depth + 2] = [n |-> n, cur |-> 1]]]

\* a push that advances the stack index twice
pushNode_twice(it, n) ==
    [depth |-> it.depth + 2,
     stack |-> [it.stack EXCEPT ![it.depth + 2] = [n |-> n, cur |-> 0],
                                ![it.depth + 3] = [n |-> n, cur |-> 0]]]

pushNode(it, n) ==
    [depth |-> it.depth + 1,
     stack |-> [it.stack EXCEPT ![it.depth + 2] = [n |-> n, cur |-> 0]]]

popNode(it) ==
    [depth |-> it.depth - 1,
     stack |-> [it.stack EXCEPT ![it.depth + 1] = [n |-> Nil, cur |-> 0]]]

RECURSIVE Iterator_HasNext_offByOne(_, _)
\* a HasNext that takes the slot after a leaf's last element for an element
Iterator_HasNext_offByOne(H, it) ==
    LET state == it.stack[it.depth + 1] IN
    IF H.nodes[state.n].kind = nodeKindLeaf
    THEN IF state.cur <= nodeLen(H, state.n) THEN [it |-> it, res |-> TRUE]
         ELSE IF it.depth = 0 THEN [it |-> it, res |-> FALSE]
         ELSE Iterator_HasNext_offByOne(H, popNode(it))
    ELSE IF state.cur < nodeLen(H, state.n)
         THEN LET child == childAt(H, state.n, state.cur)
                  it1 == [it EXCEPT !.stack[it.depth + 1].cur = @ + 1]
                  it2 == pushNode(it1, child)
              IN IF H.nodes[child].kind = nodeKindLeaf THEN [it |-> it2, res |-> TRUE]
                 ELSE Iterator_HasNext_offByOne(H, it2)
         ELSE IF it.depth = 0 THEN [it |-> it, res |-> FALSE]
         ELSE Iterator_HasNext_offByOne(H, popNode(it))

RECURSIVE Iterator_HasNext_consuming(_, _)
\* a HasNext that steps over the element it reports
Iterator_HasNext_consuming(H, it) ==
    LET state == it.stack[it.depth + 1] IN
    IF H.nodes[state.n].kind = nodeKindLeaf
    THEN IF state.cur < nodeLen(H, state.n) - 1
         THEN [it |-> [it EXCEPT !.stack[it.depth + 1].cur = @ + 1], res |-> TRUE]
         ELSE IF state.cur < nodeLen(H, state.n) THEN [it |-> it, res |-> TRUE]
         ELSE IF it.depth = 0 THEN [it |-> it, res |-> FALSE]
         ELSE Iterator_HasNext_consuming(H, popNode(it))
    ELSE IF state.cur < nodeLen(H, state.n)
         THEN LET child == childAt(H, state.n, state.cur)
                  it1 == [it EXCEPT !.stack[it.depth + 1].cur = @ + 1]
                  it2 == pushNode(it1, child)
              IN IF H.nodes[child].kind = nodeKindLeaf THEN [it |-> it2, res |-> TRUE]
                 ELSE Iterator_HasNext_consuming(H, it2)
         ELSE IF it.depth = 0 THEN [it |-> it, res |-> FALSE]
         ELSE Iterator_HasNext_consuming(H, popNode(it))

RECURSIVE Iterator_HasNext(_, _)
Iterator_HasNext(H, it) ==
    LET state == it.stack[it.depth + 1] IN
    IF H.nodes[state.n].kind = nodeKindLeaf
    THEN IF state.cur < nodeLen(H, state.n) THEN [it |-> it, res |-> TRUE]
         ELSE IF it.depth = 0 THEN [it |-> it, res |-> FALSE]
         ELSE Iterator_HasNext(H, popNode(it))
    ELSE IF state.cur < nodeLen(H, state.n)
         THEN LET child == childAt(H, state.n, state.cur)
                  it1 == [it EXCEPT !.stack[it.depth + 1].cur = @ + 1]
                  it2 == pushNode(it1, child)
              IN IF H.nodes[child].kind = nodeKindLeaf THEN [it |-> it2, res |-> TRUE]
                 ELSE Iterator_HasNext(H, it2)
         ELSE IF it.depth = 0 THEN [it |-> it, res |-> FALSE]
         ELSE Iterator_HasNext(H, popNode(it))

\* what a loop over the iterator shows of a Next that panicked
indexPanic == [k |-> -1, v |-> 0]

\* n.keys[state.cur] panics when state.cur is not an index of the slice: ok is FALSE
\* then and the iterator is left as it was
Iterator_Next(H, it) ==
    LET state == it.stack[it.depth + 1] IN
    IF state.cur >= 0 /\ state.cur < sizeOfKeyArray(H, state.n)
    THEN [it |-> [it EXCEPT !.stack[it.depth + 1].cur = @ + 1],
          out |-> keyAt(H, state.n, state.cur), ok |-> TRUE]
    ELSE [it |-> it, out |-> indexPanic, ok |-> FALSE]

\* a seek that leaves the iterator at the start of the tree
Iterator_findFirst_noSeek(H, it, from) == it

RECURSIVE Iterator_findFirst(_, _, _)
Iterator_findFirst(H, it, from) ==
    LET state == it.stack[it.depth + 1]
        first == searchFirst(H, state.n, from)
    IN IF H.nodes[state.n].kind = nodeKindLeaf
       THEN [it EXCEPT !.stack[it.depth + 1].cur = first]
       ELSE IF first >= sizeOfChildArray(H, state.n)
       THEN [it EXCEPT !.stack[it.depth + 1].cur = sizeOfChildArray(H, state.n)]
       ELSE Iterator_findFirst(H,
              pushNode([it EXCEPT !.stack[it.depth + 1].cur = first + 1],
                       childAt(H, state.n, first)),
              from)

\* an Iterator() without the HasNext call that makes the first Next valid
BTree_Iterator_noHasNext(H, root) == makeIterator(root)

BTree_Iterator(H, root) == Iterator_HasNext(H, makeIterator(root)).it

BTree_IteratorFrom(H, root, from) ==
    Iterator_HasNext(H, Iterator_findFirst(H, makeIterator(root), from)).it

TBTree_Iterator(H, tt) ==
    IF ensureEditable(H, tt) THEN returned(BTree_Iterator(H, tt.root))
    ELSE panicked(ErrTafterP)

TBTree_IteratorFrom(H, tt, from) ==
    IF ensureEditable(H, tt) THEN returned(BTree_IteratorFrom(H, tt.root, from))
    ELSE panicked(ErrTafterP)

\* for i.HasNext() { yield(i.Next()) }
RECURSIVE Iterator_Seq(_, _), Iterator_Seq_yield(_, _)
Iterator_Seq(H, it) ==
    LET hn == Iterator_HasNext(H, it) IN
    IF hn.res
    THEN Iterator_Seq_yield(H, Iterator_Next(H, hn.it))
    ELSE <<>>

\* the loop's body with the element of Next; a panic of Next ends the loop
Iterator_Seq_yield(H, nx) ==
    IF nx.ok THEN <<nx.out>> \o Iterator_Seq(H, nx.it) ELSE <<indexPanic>>

\* the iterator as the loop of Seq leaves it
RECURSIVE Iterator_Exhaust(_, _)
Iterator_Exhaust(H, it) ==
    LET hn == Iterator_HasNext(H, it) IN
    IF hn.res /\ Iterator_Next(H, hn.it).ok
    THEN Iterator_Exhaust(H, Iterator_Next(H, hn.it).it) ELSE hn.it

(* ---- what a client can observe of a tree ---- *)
\* a probe carries only a key: find and the seek compare by cmp alone
Probe(k) == [k |-> k, v |-> 1]
Probes == 0..(NumKeys + 1)

IterAll(H, root) == Iterator_Seq(H, BTree_Iterator(H, root))
IterFrom(H, root, k) == Iterator_Seq(H, BTree_IteratorFrom(H, root, Probe(k)))

\* contains, find and at for every key, length, iterator, iteratorFrom for every key
Obs(H, root, count) ==
    [len |-> count,
     find |-> [k \in Keys |-> node_find(H, root, Probe(k))],
     iter |-> IterAll(H, root),
     from |-> [k \in Probes |-> IterFrom(H, root, k)]]

(* ---- structure of a tree ---- *)
RECURSIVE height(_, _)
height(H, n) ==
    IF H.nodes[n].kind = nodeKindLeaf THEN 1 ELSE 1 + height(H, childAt(H, n, 0))

RECURSIVE leafElems(_, _)
\* the elements stored in the leaves reachable from n, left to right
leafElems(H, n) ==
    IF H.nodes[n].kind = nodeKindLeaf THEN Slice(keysOf(H, n), 0, nodeLen(H, n))
    ELSE LET RECURSIVE walk(_)
             walk(i) == IF i >= nodeLen(H, n) THEN <<>>
                        ELSE leafElems(H, childAt(H, n, i)) \o walk(i + 1)
         IN walk(0)

RECURSIVE isSeparator(_, _, _)
\* key k is stored in the keys of an internal node reachable from n
isSeparator(H, n, k) ==
    /\ H.nodes[n].kind = nodeKindInternal
    /\ \/ \E i \in 0..(nodeLen(H, n) - 1) : keyAt(H, n, i).k = k
       \/ \E i \in 0..(nodeLen(H, n) - 1) : isSeparator(H, childAt(H, n, i), k)

(* ---- the reference: a finite map from keys to values, 0 for absent ---- *)
RECURSIVE refSeqFrom(_, _)
refSeqFrom(r, k) ==
    IF k > NumKeys THEN <<>>
    ELSE (IF k >= 1 /\ r[k] # 0 THEN <<[k |-> k, v |-> r[k]]>> ELSE <<>>)
         \o refSeqFrom(r, k + 1)

refSize(r) == Cardinality({k \in Keys : r[k] # 0})

effectOfAdd(r, e) ==
    IF r[e.k] = 0 THEN "insert" ELSE IF r[e.k] = e.v THEN "noop" ELSE "replace"

effectOfDelete(r, k) == IF r[k] = 0 THEN "noop" ELSE "delete"

(* ---- the state machine: one client working on one handle at a time ---- *)
VARIABLES
    heap,     \* the heap of nodes, arrays, edit tokens; the writes of the last call
    cur,      \* the current persistent tree
    tr,       \* the transient (NoTransient until the first AsTransient)
    tr2,      \* a second transient, forked while the first is live or after it
    shadow,   \* the persistent tree given the same calls as the transient
    snap,     \* an earlier persistent tree, kept by the client
    snapObs,  \* what the client read from snap when it kept it
    ref,      \* reference contents of the handle in use
    nops,     \* add/delete calls and calls on a frozen transient made so far
    nforks,   \* AsTransient calls made so far
    last,     \* the last call: its kind, argument, effect and the handle before it
    pend,     \* the editor thread's writes to existing objects not yet done
    rd        \* the reader thread: its call on the kept tree and its position in it

vars == <<heap, cur, tr, tr2, shadow, snap, snapObs, ref, nops, nforks, last, pend, rd>>

\* the reader thread before its call
idleReader ==
    [pc |-> "idle", op |-> "none", key |-> Zero, n |-> Nil, lo |-> 0, hi |-> 0,
     it |-> makeIterator(Nil), out |-> <<>>, found |-> FALSE, panicked |-> FALSE]

ResetLog(H) == [H EXCEPT !.log = <<>>]

\* a transient was made and not yet frozen
Live == tr.root # Nil /\ heap.edits[tr.edit]

(* initial trees: built by the code itself from Empty *)
Patterns == {"asc", "desc", "mix", "tasc"}

Order(pat, n) ==
    IF pat = "desc" THEN tupleOf([i \in 1..n |-> NumKeys + 1 - i])
    ELSE IF pat = "mix"
    THEN tupleOf([i \in 1..n |-> IF i <= NumKeys \div 2 THEN 2 * i
                                 ELSE 2 * (i - NumKeys \div 2) - 1])
    ELSE tupleOf([i \in 1..n |-> i])

RECURSIVE BuildP(_, _)
\* r: the heap and the tree so far
BuildP(r, seq) ==
    IF seq = <<>> THEN r
    ELSE BuildP(BTree_Add(r.H, r.t, [k |-> Head(seq), v |-> 1]), Tail(seq))

RECURSIVE BuildT(_, _)
\* r: the heap and the transient so far
BuildT(r, seq) ==
    IF seq = <<>> THEN TBTree_AsPersistent(r.H, r.tt)
    ELSE BuildT(TBTree_Add(r.H, r.tt, [k |-> Head(seq), v |-> 1]), Tail(seq))

Build(pat, n) ==
    IF pat = "tasc"
    THEN BuildT(BTree_AsTransient(Empty.H, Empty.t), Order(pat, n))
    ELSE BuildP(Empty, Order(pat, n))

noCall == [op |-> "init", key |-> Zero, effect |-> "none", before |-> NoTransient.orig,
           sep |-> FALSE, obs |-> <<>>, err |-> noErr, touched |-> FALSE]

\* the sizes of the initial trees of each insertion order
BaseSizes(pat) ==
    IF pat = "asc" THEN {0, 1, 4, 5, 8, NumKeys - 1}
    ELSE IF pat = "desc" THEN {5, 9, NumKeys}
    ELSE IF pat = "mix" THEN {6, 10, NumKeys}
    ELSE {3, 5, 8, NumKeys - 1, NumKeys}

InitTree(pat, n) ==
    \E b \in {Build(pat, n)} :
        /\ heap = ResetLog(b.H)
        /\ cur = b.t
        /\ tr = NoTransient
        /\ tr2 = NoTransient
        /\ shadow = b.t
        /\ snap = b.t
        /\ snapObs = Obs(b.H, b.t.root, b.t.count)
        /\ ref = tupleOf([k \in Keys |->
                            IF \E i \in 1..n : Order(pat, n)[i] = k THEN 1 ELSE 0])
        /\ nops = 0
        /\ nforks = 0
        /\ last = noCall
        /\ pend = <<>>
        /\ rd = idleReader

Init == \E pat \in Patterns : \E n \in BaseSizes(pat) : InitTree(pat, n)

call(op, key, effect, before, H) ==
    [op |-> op, key |-> key, effect |-> effect, before |-> before,
     sep |-> isSeparator(H, before.root, key.k),
     obs |-> IterAll(H, before.root), err |-> noErr,
     touched |-> last.touched \/ effect # "noop"]
\* touched: a call since AsTransient() had an effect

\* t.Add(e) on the current persistent tree
PAdd(e) ==
    /\ ~Live /\ nops < MaxOps
    /\ \E r \in {BTree_Add(ResetLog(heap), cur, e)} :
       /\ heap' = r.H
       /\ cur' = r.t
       /\ ref' = [ref EXCEPT ![e.k] = e.v]
       /\ last' = [call("padd", e, effectOfAdd(ref, e), cur, heap)
                      EXCEPT !.touched = FALSE]
    /\ nops' = nops + 1
    /\ UNCHANGED <<tr, tr2, shadow, snap, snapObs, nforks, pend, rd>>

\* t.Delete(k) on the current persistent tree
PDelete(k) ==
    /\ ~Live /\ nops < MaxOps
    /\ \E r \in {BTree_Delete(ResetLog(heap), cur, Probe(k))} :
       /\ heap' = r.H
       /\ cur' = r.t
       /\ ref' = [ref EXCEPT ![k] = 0]
       /\ last' = [call("pdel", Probe(k), effectOfDelete(ref, k), cur, heap)
                      EXCEPT !.touched = FALSE]
    /\ nops' = nops + 1
    /\ UNCHANGED <<tr, tr2, shadow, snap, snapObs, nforks, pend, rd>>

\* t.AsTransient(): the client keeps t and what it reads from it
Fork ==
    /\ ~Live /\ nops < MaxOps /\ nforks < MaxForks
    /\ \E r \in {BTree_AsTransient(ResetLog(heap), cur)} :
       /\ heap' = r.H
       /\ tr' = r.tt
    /\ shadow' = cur
    /\ snap' = cur
    /\ snapObs' = Obs(heap, cur.root, cur.count)
    /\ last' = [noCall EXCEPT !.op = "fork"]
    /\ nforks' = nforks + 1
    /\ UNCHANGED <<cur, tr2, ref, nops, pend, rd>>

\* tt.Add(e) on the transient, then the same call on the persistent shadow
TAdd(e) ==
    /\ Live /\ nops < MaxOps
    /\ \E r \in {TBTree_Add(ResetLog(heap), tr, e)} :
       \E p \in {BTree_Add(r.H, shadow, e)} :
          /\ heap' = p.H
          /\ tr' = r.tt
          /\ shadow' = p.t
          /\ last' = call("tadd", e, effectOfAdd(ref, e), tr, heap)
    /\ ref' = [ref EXCEPT ![e.k] = e.v]
    /\ nops' = nops + 1
    /\ UNCHANGED <<cur, tr2, snap, snapObs, nforks, pend, rd>>

\* tt.Delete(k) on the transient, then the same call on the persistent shadow
TDelete(k) ==
    /\ Live /\ nops < MaxOps
    /\ \E r \in {TBTree_Delete(ResetLog(heap), tr, Probe(k))} :
       \E p \in {BTree_Delete(r.H, shadow, Probe(k))} :
          /\ heap' = p.H
          /\ tr' = r.tt
          /\ shadow' = p.t
          /\ last' = call("tdel", Probe(k), effectOfDelete(ref, k), tr, heap)
    /\ ref' = [ref EXCEPT ![k] = 0]
    /\ nops' = nops + 1
    /\ UNCHANGED <<cur, tr2, snap, snapObs, nforks, pend, rd>>

\* tt.AsPersistent(): the frozen tree becomes the current tree
Freeze ==
    /\ Live
    /\ \E r \in {TBTree_AsPersistent(ResetLog(heap), tr)} :
       /\ heap' = r.H
       /\ cur' = r.t
    /\ last' = [noCall EXCEPT !.op = "freeze", !.touched = last.touched]
    /\ UNCHANGED <<tr, tr2, shadow, snap, snapObs, ref, nops, nforks, pend, rd>>

\* the methods of the transient's interface that call ensureEditable
TBTreeMethods ==
    {"Contains", "At", "Find", "Length", "Add", "Delete", "Iterator", "IteratorFrom",
     "AsPersistent"}

\* the arguments tried on a frozen transient: a stored key with a new value, a key
\* above the stored ones
FrozenArgs == {[k |-> 1, v |-> NumVals], [k |-> NumKeys, v |-> 1]}

\* a read leaves the heap and the transient alone
readOutcome(H, tt, r) == [H |-> H, tt |-> tt, err |-> r.err]

\* AsPersistent leaves the transient's fields alone
freezeOutcome(tt, r) == [H |-> r.H, tt |-> tt, err |-> r.err]

\* one call of a method of the transient: the heap, the transient's fields and the
\* panic value (noErr when the call returned) after it
TBTree_call(m, H, tt, key) ==
    IF m = "Add" THEN TBTree_Add(H, tt, key)
    ELSE IF m = "Delete" THEN TBTree_Delete(H, tt, key)
    ELSE IF m = "AsPersistent" THEN freezeOutcome(tt, TBTree_AsPersistent(H, tt))
    ELSE IF m = "Contains" THEN readOutcome(H, tt, TBTree_Contains(H, tt, key))
    ELSE IF m = "At" THEN readOutcome(H, tt, TBTree_At(H, tt, key))
    ELSE IF m = "Find" THEN readOutcome(H, tt, TBTree_Find(H, tt, key))
    ELSE IF m = "Length" THEN readOutcome(H, tt, TBTree_Length(H, tt))
    ELSE IF m = "Iterator" THEN readOutcome(H, tt, TBTree_Iterator(H, tt))
    ELSE readOutcome(H, tt, TBTree_IteratorFrom(H, tt, key))

\* a call of method m on the transient after its AsPersistent()
UseFrozen(m, e) ==
    /\ tr # NoTransient /\ ~Live /\ nops < MaxOps
    /\ \E r \in {TBTree_call(m, ResetLog(heap), tr, e)} :
       /\ heap' = r.H
       /\ tr' = r.tt
       /\ last' = [op |-> "frozen", key |-> e, effect |-> m, before |-> tr,
                   sep |-> FALSE, obs |-> IterAll(heap, cur.root), err |-> r.err,
                   touched |-> last.touched]
    /\ nops' = nops + 1
    /\ UNCHANGED <<cur, tr2, shadow, snap, snapObs, ref, nforks, pend, rd>>

Next ==
    \/ \E e \in Elem : PAdd(e)
    \/ \E k \in Keys : PDelete(k)
    \/ Fork
    \/ \E e \in Elem : TAdd(e)
    \/ \E k \in Keys : TDelete(k)
    \/ Freeze
    \/ \E m \in TBTreeMethods : \E e \in FrozenArgs : UseFrozen(m, e)

Spec == Init /\ [][Next]_vars

(* ---- two threads: an editor on the transient, a reader on the kept tree ----
   The editor's call is computed as in Spec; its writes to objects that existed
   before the call are then done one slot per step, in program order, so that the
   reader's slot reads interleave with them.  Objects the call allocates are
   private to the editor until its call returns.                                 *)
\* the trees and the keys of the two-thread runs
ConcSizes(pat) == IF pat = "asc" THEN {5, 8} ELSE IF pat = "tasc" THEN {5} ELSE {}
ReadKeys == {1, 2, 5, 6}

\* the heap after the call, the slots of the objects of H0 still as they were
Staged(H0, H1) ==
    [H1 EXCEPT
       !.nodes = tupleOf([i \in 1..Len(@) |->
                    IF i <= Len(H0.nodes) THEN [@[i] EXCEPT !.len = H0.nodes[i].len]
                    ELSE @[i]]),
       !.keys = tupleOf([a \in 1..Len(@) |->
                    IF a <= Len(H0.keys) THEN H0.keys[a] ELSE @[a]]),
       !.kids = tupleOf([a \in 1..Len(@) |->
                    IF a <= Len(H0.kids) THEN H0.kids[a] ELSE @[a]]),
       !.log = <<>>]

\* the writes of the log that land in objects of H0
sharedWrites(H0, log) ==
    SelectSeq(log, LAMBDA w :
        \/ w.obj = "keys" /\ w.id <= Len(H0.keys)
        \/ w.obj = "kids" /\ w.id <= Len(H0.kids)
        \/ w.obj = "len" /\ w.id <= Len(H0.nodes))

\* one store
applyWrite(H, w) ==
    IF w.obj = "keys" THEN [H EXCEPT !.keys[w.id][w.idx + 1] = w.e]
    ELSE IF w.obj = "kids" THEN [H EXCEPT !.kids[w.id][w.idx + 1] = w.c]
    ELSE [H EXCEPT !.nodes[w.id].len = w.c]

RECURSIVE applyWrites(_, _)
applyWrites(H, ws) == IF ws = <<>> THEN H ELSE applyWrites(applyWrite(H, Head(ws)), Tail(ws))

RECURSIVE Reach(_, _)
\* the nodes reachable from n
Reach(H, n) ==
    IF H.nodes[n].kind = nodeKindLeaf THEN {n}
    ELSE {n} \cup UNION {Reach(H, childAt(H, n, i)) : i \in 0..(nodeLen(H, n) - 1)}

\* the store w lands in a node or array reachable from the tree `root`
writesTree(H, root, w) ==
    LET ns == Reach(H, root) IN
    \/ w.obj = "len" /\ w.id \in ns
    \/ w.obj = "keys" /\ \E n \in ns : H.nodes[n].keys = w.id
    \/ w.obj = "kids" /\ \E n \in ns : H.nodes[n].kind = nodeKindInternal
                                        /\ H.nodes[n].children = w.id

\* the editor thread calls tt.Add(e)
EditAdd(e) ==
    /\ Live /\ pend = <<>> /\ nops < MaxOps
    /\ \E r \in {TBTree_Add(ResetLog(heap), tr, e)} :
       /\ heap' = Staged(heap, r.H)
       /\ pend' = sharedWrites(heap, r.H.log)
       /\ tr' = r.tt
    /\ nops' = nops + 1
    /\ UNCHANGED <<cur, tr2, shadow, snap, snapObs, ref, nforks, last, rd>>

\* the editor thread calls tt.Delete(k)
EditDelete(k) ==
    /\ Live /\ pend = <<>> /\ nops < MaxOps
    /\ \E r \in {TBTree_Delete(ResetLog(heap), tr, Probe(k))} :
       /\ heap' = Staged(heap, r.H)
       /\ pend' = sharedWrites(heap, r.H.log)
       /\ tr' = r.tt
    /\ nops' = nops + 1
    /\ UNCHANGED <<cur, tr2, shadow, snap, snapObs, ref, nforks, last, rd>>

\* the editor thread does its next store
EditWrite ==
    /\ pend # <<>>
    /\ heap' = applyWrite(heap, Head(pend))
    /\ pend' = Tail(pend)
    /\ UNCHANGED <<cur, tr, tr2, shadow, snap, snapObs, ref, nops, nforks, last, rd>>

(* the reader thread: t.Find(key) on the kept tree, one load per step *)
readDone(r, out, found) == [r EXCEPT !.pc = "done", !.out = <<out>>, !.found = found]
readPanic(r) == [r EXCEPT !.pc = "done", !.panicked = TRUE]

\* sort.Search's loop has ended: i is r.lo
afterSearch(r) == IF r.lo < r.hi THEN r ELSE [r EXCEPT !.pc = "chk"]

\* the key was not found in node r.n
findMiss(H, r) ==
    IF H.nodes[r.n].kind = nodeKindLeaf THEN readDone(r, Zero, FALSE)
    ELSE [r EXCEPT !.pc = "end"]

findStep(H, r) ==
    IF r.pc = "len"                      \* sort.Search(int(n.len), ...)
    THEN afterSearch([r EXCEPT !.lo = 0, !.hi = nodeLen(H, r.n), !.pc = "bs"])
    ELSE IF r.pc = "bs"                  \* cmp(n.keys[h], key) >= 0
    THEN LET h == (r.lo + r.hi) \div 2 IN
         IF h >= sizeOfKeyArray(H, r.n) THEN readPanic(r)
         ELSE IF cmp(keyAt(H, r.n, h), r.key) >= 0
         THEN afterSearch([r EXCEPT !.hi = h])
         ELSE afterSearch([r EXCEPT !.lo = h + 1])
    ELSE IF r.pc = "chk"                 \* i < n.len
    THEN IF r.lo < nodeLen(H, r.n) THEN [r EXCEPT !.pc = "cmp"] ELSE findMiss(H, r)
    ELSE IF r.pc = "cmp"                 \* cmp(key, n.keys[i]) == 0
    THEN IF r.lo >= sizeOfKeyArray(H, r.n) THEN readPanic(r)
         ELSE IF cmp(r.key, keyAt(H, r.n, r.lo)) = 0 THEN [r EXCEPT !.pc = "hit"]
         ELSE findMiss(H, r)
    ELSE IF r.pc = "hit"                 \* return n.keys[idx], true
    THEN IF r.lo >= sizeOfKeyArray(H, r.n) THEN readPanic(r)
         ELSE readDone(r, keyAt(H, r.n, r.lo), TRUE)
    ELSE IF r.pc = "end"                 \* idx == n.len
    THEN IF r.lo = nodeLen(H, r.n) THEN readDone(r, Zero, FALSE)
         ELSE [r EXCEPT !.pc = "down"]
    ELSE                                 \* n.children[idx].find(key, cmp)
         IF r.lo >= sizeOfChildArray(H, r.n) \/ childAt(H, r.n, r.lo) = Nil
         THEN readPanic(r)
         ELSE [r EXCEPT !.n = childAt(H, r.n, r.lo), !.pc = "len"]

(* the reader thread: t.IteratorFrom(key) on the kept tree and the loop over it,
   one iterator call per step *)
seekStep(H, r) ==
    IF r.pc = "seek"
    THEN [r EXCEPT !.it = BTree_IteratorFrom(H, r.n, r.key), !.pc = "iter"]
    ELSE LET hn == Iterator_HasNext(H, r.it) IN
         IF hn.res
         THEN LET nx == Iterator_Next(H, hn.it) IN
              [r EXCEPT !.it = nx.it, !.out = Append(@, nx.out),
                        !.pc = IF nx.ok THEN @ ELSE "done",
                        !.panicked = ~nx.ok]
         ELSE [r EXCEPT !.it = hn.it, !.pc = "done"]

\* the reader thread starts its call on the tree it kept
ReadBegin(op, k) ==
    /\ rd.pc = "idle" /\ tr # NoTransient
    /\ rd' = [idleReader EXCEPT !.op = op, !.key = Probe(k), !.n = snap.root,
                                !.pc = IF op = "find" THEN "len" ELSE "seek"]
    /\ UNCHANGED <<heap, cur, tr, tr2, shadow, snap, snapObs, ref, nops, nforks, last, pend>>

\* the reader thread takes its next step
ReadStep ==
    /\ rd.pc \notin {"idle", "done"}
    /\ rd' = IF rd.op = "find" THEN findStep(heap, rd) ELSE seekStep(heap, rd)
    /\ UNCHANGED <<heap, cur, tr, tr2, shadow, snap, snapObs, ref, nops, nforks, last, pend>>

InitConc == \E pat \in Patterns : \E n \in ConcSizes(pat) : InitTree(pat, n)

NextConc ==
    \/ Fork
    \/ \E e \in Elem : EditAdd(e)
    \/ \E k \in Keys : EditDelete(k)
    \/ EditWrite
    \/ \E op \in {"find", "seek"} : \E k \in ReadKeys : ReadBegin(op, k)
    \/ ReadStep

SpecConc == InitConc /\ [][NextConc]_vars

(* ---- deleting every key: one client deletes the stored keys one by one, in any
   order, with BTree.Delete or through a transient ---- *)
\* the sizes of the trees that are emptied, all of height >= 2
DrainSizes(pat) ==
    IF pat = "asc" THEN {5, NumKeys - 1}
    ELSE IF pat = "desc" THEN {9}
    ELSE IF pat = "mix" THEN {6}
    ELSE {8}

\* trees of up to MaxAnyOrder elements are emptied in every order, larger ones by
\* taking the least, the middle or the greatest stored key each time
MaxAnyOrder == 6

stored_keys(r) == {k \in Keys : r[k] # 0}

middle(S) == CHOOSE k \in S : Cardinality({j \in S : j < k}) = Cardinality(S) \div 2

drainable(r, n) ==
    IF n <= MaxAnyOrder THEN stored_keys(r)
    ELSE {k \in stored_keys(r) :
            \/ \A j \in stored_keys(r) : j >= k
            \/ \A j \in stored_keys(r) : j <= k
            \/ k = middle(stored_keys(r))}

InitDrain == \E pat \in Patterns : \E n \in DrainSizes(pat) : InitTree(pat, n)

\* t.AsTransient() before the first Delete
DrainFork ==
    /\ tr = NoTransient /\ nops = 0
    /\ \E r \in {BTree_AsTransient(ResetLog(heap), cur)} :
       /\ heap' = r.H
       /\ tr' = r.tt
    /\ last' = [noCall EXCEPT !.op = "fork"]
    /\ nforks' = nforks + 1
    /\ UNCHANGED <<cur, tr2, shadow, snap, snapObs, ref, nops, pend, rd>>

\* t.Delete(k) of a stored key
DrainPDelete(k) ==
    /\ ~Live /\ k \in drainable(ref, snap.count)
    /\ \E r \in {BTree_Delete(ResetLog(heap), cur, Probe(k))} :
       /\ heap' = r.H
       /\ cur' = r.t
       /\ last' = [call("pdel", Probe(k), effectOfDelete(ref, k), cur, heap)
                      EXCEPT !.touched = FALSE]
    /\ ref' = [ref EXCEPT ![k] = 0]
    /\ nops' = nops + 1
    /\ UNCHANGED <<tr, tr2, shadow, snap, snapObs, nforks, pend, rd>>

\* tt.Delete(k) of a stored key
DrainTDelete(k) ==
    /\ Live /\ k \in drainable(ref, snap.count)
    /\ \E r \in {TBTree_Delete(ResetLog(heap), tr, Probe(k))} :
       /\ heap' = r.H
       /\ tr' = r.tt
       /\ last' = call("tdel", Probe(k), effectOfDelete(ref, k), tr, heap)
    /\ ref' = [ref EXCEPT ![k] = 0]
    /\ nops' = nops + 1
    /\ UNCHANGED <<cur, tr2, shadow, snap, snapObs, nforks, pend, rd>>

\* tt.AsPersistent() of the emptied transient
DrainFreeze ==
    /\ Live /\ refSize(ref) = 0
    /\ \E r \in {TBTree_AsPersistent(ResetLog(heap), tr)} :
       /\ heap' = r.H
       /\ cur' = r.t
    /\ last' = [noCall EXCEPT !.op = "freeze", !.touched = last.touched]
    /\ UNCHANGED <<tr, tr2, shadow, snap, snapObs, ref, nops, nforks, pend, rd>>

NextDrain ==
    \/ DrainFork
    \/ \E k \in Keys : DrainPDelete(k)
    \/ \E k \in Keys : DrainTDelete(k)
    \/ DrainFreeze

SpecDrain == InitDrain /\ [][NextDrain]_vars

(* ---- two transients: the client forks a second transient from its current tree
   while the first is live or after it froze, and edits either ---- *)
TwoSizes(pat) == IF pat = "asc" THEN {5, 8} ELSE IF pat = "tasc" THEN {5} ELSE {}

\* the second transient was made and not yet frozen
Live2 == tr2.root # Nil /\ heap.edits[tr2.edit]

\* what tt.Add(e), tt.Delete(k) do to the tree below root
effectOfAddOn(H, root, e) ==
    IF ~node_find(H, root, e).found THEN "insert"
    ELSE IF eq(node_find(H, root, e).out, e) THEN "noop" ELSE "replace"

effectOfDeleteOn(H, root, k) ==
    IF node_find(H, root, Probe(k)).found THEN "delete" ELSE "noop"

InitTwo == \E pat \in Patterns : \E n \in TwoSizes(pat) : InitTree(pat, n)

\* t.AsTransient() on the current tree, a second time
ForkSecond ==
    /\ tr # NoTransient /\ tr2 = NoTransient
    /\ \E r \in {BTree_AsTransient(ResetLog(heap), cur)} :
       /\ heap' = r.H
       /\ tr2' = r.tt
    /\ last' = [noCall EXCEPT !.op = "fork2", !.touched = last.touched]
    /\ nforks' = nforks + 1
    /\ UNCHANGED <<cur, tr, shadow, snap, snapObs, ref, nops, pend, rd>>

\* tt2.Add(e) on the second transient
T2Add(e) ==
    /\ Live2 /\ nops < MaxOps
    /\ \E r \in {TBTree_Add(ResetLog(heap), tr2, e)} :
       /\ heap' = r.H
       /\ tr2' = r.tt
       /\ last' = call("t2add", e, effectOfAddOn(heap, tr2.root, e), tr2, heap)
    /\ nops' = nops + 1
    /\ UNCHANGED <<cur, tr, shadow, snap, snapObs, ref, nforks, pend, rd>>

\* tt2.Delete(k) on the second transient
T2Delete(k) ==
    /\ Live2 /\ nops < MaxOps
    /\ \E r \in {TBTree_Delete(ResetLog(heap), tr2, Probe(k))} :
       /\ heap' = r.H
       /\ tr2' = r.tt
       /\ last' = call("t2del", Probe(k), effectOfDeleteOn(heap, tr2.root, k), tr2, heap)
    /\ nops' = nops + 1
    /\ UNCHANGED <<cur, tr, shadow, snap, snapObs, ref, nforks, pend, rd>>

\* tt2.AsPersistent(): the client keeps the frozen tree
Freeze2 ==
    /\ Live2
    /\ \E r \in {TBTree_AsPersistent(ResetLog(heap), tr2)} :
       /\ heap' = r.H
       /\ snap' = r.t
       /\ snapObs' = Obs(r.H, r.t.root, r.t.count)
    /\ last' = [noCall EXCEPT !.op = "freeze2", !.touched = last.touched]
    /\ UNCHANGED <<cur, tr, tr2, shadow, ref, nops, nforks, pend, rd>>

NextTwo ==
    \/ Fork
    \/ ForkSecond
    \/ \E e \in Elem : TAdd(e)
    \/ \E k \in Keys : TDelete(k)
    \/ \E e \in Elem : T2Add(e)
    \/ \E k \in Keys : T2Delete(k)
    \/ Freeze
    \/ Freeze2

SpecTwo == InitTwo /\ [][NextTwo]_vars

(* ---- an iterator held across calls: the client takes an iterator of its current
   persistent tree, then adds to and deletes from the trees and transients it
   derives from that tree between the iterator's HasNext/Next calls ---- *)
IterSizes(pat) == IF pat = "asc" THEN {8} ELSE IF pat = "tasc" THEN {5} ELSE {}
IterKeys == {4}

\* t.Iterator() or t.IteratorFrom(k) on the tree `root`
iteratorOf(H, root, op, k) ==
    IF op = "all" THEN BTree_Iterator(H, root) ELSE BTree_IteratorFrom(H, root, Probe(k))

\* the client takes the iterator before its first add or delete.  want: what the
\* loop over the iterator emits when nothing is applied; lo: the number of add and
\* delete calls made when the iterator was last called
IterBegin(op, k) ==
    /\ rd.pc = "idle" /\ nops = 0
    /\ \E it \in {iteratorOf(heap, cur.root, op, k)} :
         rd' = [pc |-> "iter", op |-> op, key |-> Probe(k), n |-> cur.root,
                lo |-> nops, hi |-> 0, it |-> it, out |-> <<>>, found |-> FALSE,
                panicked |-> FALSE, want |-> Iterator_Seq(heap, it)]
    /\ UNCHANGED <<heap, cur, tr, tr2, shadow, snap, snapObs, ref, nops, nforks, last, pend>>

\* one round of for i.HasNext() { yield(i.Next()) }
IterStep ==
    /\ rd.pc = "iter"
    /\ rd' = [seekStep(heap, rd) EXCEPT !.lo = nops]
    /\ UNCHANGED <<heap, cur, tr, tr2, shadow, snap, snapObs, ref, nops, nforks, last, pend>>

InitIter == \E pat \in Patterns : \E n \in IterSizes(pat) : InitTree(pat, n)

NextIter ==
    \/ \E e \in Elem : PAdd(e)
    \/ \E k \in Keys : PDelete(k)
    \/ Fork
    \/ \E e \in Elem : TAdd(e)
    \/ \E k \in Keys : TDelete(k)
    \/ Freeze
    \/ \E op \in {"all", "from"} : \E k \in IterKeys : IterBegin(op, k)
    \/ IterStep

SpecIter == InitIter /\ [][NextIter]_vars

(* ---- adds under a full root: trees built by the code whose root has maxLen
   leaves, the leaf at one position full or one add from full with a key free
   inside its range, so that one or two adds split that leaf and the root ---- *)
SplitOrders ==
    {<<1, 5, 6, 7, 8, 9, 10, 11, 12, 2, 3>>,
     <<1, 2, 3, 7, 8, 9, 10, 11, 12, 4, 5>>,
     <<1, 2, 3, 4, 8, 9, 10, 11, 12, 5, 6>>,
     <<1, 2, 3, 4, 5, 6, 7, 8, 9, 10>>,
     <<1, 2, 3, 7, 8, 9, 10, 11, 12, 4>>}

InitSplit ==
    \E o \in SplitOrders : \E b \in {BuildP(Empty, o)} :
        /\ heap = ResetLog(b.H)
        /\ cur = b.t
        /\ tr = NoTransient
        /\ tr2 = NoTransient
        /\ shadow = b.t
        /\ snap = b.t
        /\ snapObs = Obs(b.H, b.t.root, b.t.count)
        /\ ref = tupleOf([k \in Keys |-> IF \E i \in 1..Len(o) : o[i] = k THEN 1 ELSE 0])
        /\ nops = 0
        /\ nforks = 0
        /\ last = noCall
        /\ pend = <<>>
        /\ rd = idleReader

NextSplit ==
    \/ \E e \in Elem : PAdd(e)
    \/ Fork
    \/ \E e \in Elem : TAdd(e)
    \/ Freeze

SpecSplit == InitSplit /\ [][NextSplit]_vars

(* ---- sanity of the runs ---- *)
NoPanic == ~heap.panicked

(* ---- the handle in use and the scope of the runs ---- *)
\* the run used persistent calls only, from Empty on
PersistentOnly == tr = NoTransient /\ cur.edit = emptyEdit

UseRoot == IF Live THEN tr.root ELSE cur.root
UseCount == IF Live THEN TBTree_Length(heap, tr).val ELSE BTree_Length(cur)

\* C1: after any sequence of persistent add and delete calls from Empty, contains(k)
\* is true exactly for the keys added and not deleted afterwards (the reference set).
C1_Membership ==
    PersistentOnly =>
        \A k \in Keys : BTree_Contains(heap, cur, Probe(k)) = (ref[k] # 0)

\* a persistent run that ended with an effective delete on a tree of height >= 2
C1_Witness ==
    /\ PersistentOnly /\ nops = MaxOps
    /\ last.op = "pdel" /\ last.effect = "delete"
    /\ height(heap, last.before.root) >= 2
    /\ ~BTree_Contains(heap, cur, last.key)
    /\ \E k \in Keys : BTree_Contains(heap, cur, Probe(k))

\* C2: every read on an earlier persistent tree t0 (contains, find, at, length,
\* iteration, seek) returns what it returned when t0 was kept, whatever persistent
\* add/delete calls are applied afterwards to the trees derived from it.
C2_Persistence ==
    PersistentOnly =>
        /\ Obs(heap, snap.root, snap.count) = snapObs
        /\ last.op \in {"padd", "pdel"} => IterAll(heap, last.before.root) = last.obs

\* two effective persistent calls were made on trees derived from a kept tree of
\* height >= 2
C2_Witness ==
    /\ PersistentOnly /\ nops = MaxOps
    /\ last.effect \in {"insert", "replace", "delete"}
    /\ last.before.id # snap.id /\ cur.id # last.before.id
    /\ height(heap, snap.root) >= 2
    /\ Obs(heap, cur.root, cur.count) # snapObs

\* C3: after any sequence of add and delete calls on a transient forked from P,
\* every read on P returns what it returned before the fork.
C3_ForkIsolation ==
    (tr # NoTransient /\ snap.id = tr.orig.id) =>
        Obs(heap, snap.root, snap.count) = snapObs

\* what the reader's finished call returned is what the same call returned before
\* the fork
readAsBefore ==
    IF rd.op = "find"
    THEN /\ ~rd.panicked
         /\ snapObs.find[rd.key.k] = [out |-> rd.out[1], found |-> rd.found]
    ELSE rd.out = snapObs.from[rd.key.k]

\* C4: while the editor thread adds to and deletes from a transient forked from P,
\* no store of the editor lands in a node or array reachable from P, and a call of
\* the reader thread on P (find, iteratorFrom), interleaved with the editor's
\* stores, returns what it returned before the fork.
C4_ConcurrentRead ==
    (tr # NoTransient /\ snap.id = tr.orig.id) =>
        /\ \A i \in 1..Len(pend) : ~writesTree(heap, snap.root, pend[i])
        /\ rd.pc = "done" => readAsBefore

\* find for every key, length and the iteration of two trees agree
sameReads(rootA, countA, rootB, countB) ==
    /\ countA = countB
    /\ IterAll(heap, rootA) = IterAll(heap, rootB)
    /\ \A k \in Keys : node_find(heap, rootA, Probe(k)) = node_find(heap, rootB, Probe(k))

\* C5: the calls made on P.asTransient() and the same calls made with the persistent
\* add and delete from P give the same length, the same elements in order and the
\* same finds, after every call and after asPersistent().
C5_TransientEquivalence ==
    /\ Live => sameReads(tr.root, TBTree_Length(heap, tr).val, shadow.root, BTree_Length(shadow))
    /\ last.op = "freeze" =>
           sameReads(cur.root, BTree_Length(cur), shadow.root, BTree_Length(shadow))

ascending(s) == \A i \in 1..(Len(s) - 1) : cmp(s[i], s[i + 1]) < 0

\* C6: the loop over iterator() emits the elements stored in the leaves, each once,
\* in strictly ascending order, as many as length says, and hasNext() is false after.
C6_IteratorAscending ==
    /\ IterAll(heap, UseRoot) = leafElems(heap, UseRoot)
    /\ ascending(IterAll(heap, UseRoot))
    /\ Len(IterAll(heap, UseRoot)) = UseCount
    /\ ~Iterator_HasNext(heap, Iterator_Exhaust(heap, BTree_Iterator(heap, UseRoot))).res

\* a tree of height 3 was reached by a delete and iterated
C6_Witness ==
    /\ last.op \in {"pdel", "tdel"} /\ last.effect = "delete"
    /\ height(heap, UseRoot) >= 3
    /\ Len(IterAll(heap, UseRoot)) >= 2 * maxLen

\* the stored elements e with cmp(e, k) >= 0, in order
tailFrom(s, k) == SelectSeq(s, LAMBDA e : e.k >= k)

\* C7: for every key k, below, between, at or above the stored elements,
\* iteratorFrom(k) emits exactly the stored elements e with cmp(e, k) >= 0, ascending.
C7_IteratorFrom ==
    \A k \in Probes :
        /\ IterFrom(heap, UseRoot, k) = tailFrom(leafElems(heap, UseRoot), k)
        /\ ascending(IterFrom(heap, UseRoot, k))

\* a tree of height >= 2 after a delete: one seek falls between two elements, one
\* above the maximum emits nothing, one below the minimum emits all
C7_Witness ==
    /\ last.effect = "delete" /\ height(heap, UseRoot) >= 2
    /\ IterFrom(heap, UseRoot, last.key.k) # <<>>
    /\ IterFrom(heap, UseRoot, last.key.k) = IterFrom(heap, UseRoot, last.key.k + 1)
    /\ IterFrom(heap, UseRoot, NumKeys + 1) = <<>>
    /\ IterFrom(heap, UseRoot, 0) = IterAll(heap, UseRoot)
    /\ Len(IterFrom(heap, UseRoot, last.key.k)) < UseCount

countChange(effect) ==
    IF effect = "insert" THEN 1 ELSE IF effect = "delete" THEN -1 ELSE 0

\* C8: length is the number of elements in the leaves under the root and the number of
\* keys added and not deleted; a call changes it by +1 (insert), 0 (replace, no-op)
\* or -1 (delete).
C8_Length ==
    /\ UseCount = Len(leafElems(heap, UseRoot))
    /\ UseCount = refSize(ref)
    /\ last.op \in {"padd", "pdel", "tadd", "tdel"} =>
           UseCount = last.before.count + countChange(last.effect)

\* a transient delete that took effect on a tree of height >= 2
C8_Witness ==
    /\ Live /\ last.op = "tdel" /\ last.effect = "delete"
    /\ height(heap, last.before.root) >= 2
    /\ UseCount = last.before.count - 1

\* the element with key k in the sequence s
stored(s, k) == SelectSeq(s, LAMBDA e : e.k = k)

\* C9: an add of (k, v2) where (k, v1) is stored, v1 # v2, keeps the length and makes
\* at(k) = (k, v2), and the tree before the add still returns (k, v1); an add of the
\* stored (k, v1) returns the handle it was called on.
C9_MapReplace ==
    /\ (last.op = "padd" /\ last.effect = "replace") =>
           /\ BTree_Length(cur) = last.before.count
           /\ BTree_At(heap, cur, Probe(last.key.k)) = last.key
           /\ BTree_Contains(heap, cur, Probe(last.key.k))
           /\ <<BTree_At(heap, last.before, Probe(last.key.k))>> = stored(last.obs, last.key.k)
           /\ BTree_At(heap, last.before, Probe(last.key.k)) # last.key
    /\ (last.op = "padd" /\ last.effect = "noop") => cur = last.before
    /\ (last.op = "tadd" /\ last.effect = "replace") =>
           /\ TBTree_Length(heap, tr).val = last.before.count
           /\ TBTree_At(heap, tr, Probe(last.key.k)).val = last.key

\* add((k, v1)).add((k, v2)) from Empty: a tree of length 1 with at(k) = (k, v2)
C9_Witness ==
    /\ PersistentOnly /\ nops = MaxOps
    /\ last.op = "padd" /\ last.effect = "replace"
    /\ last.before.count = 1 /\ BTree_Length(cur) = 1
    /\ BTree_At(heap, cur, Probe(last.key.k)).v # BTree_At(heap, last.before, Probe(last.key.k)).v

\* s with the element of e's key replaced by e
replaced(s, e) == tupleOf([i \in 1..Len(s) |-> IF s[i].k = e.k THEN e ELSE s[i]])

\* C10: in a tree of height >= 2, an add that replaces an element whose key is a
\* separator of an internal node makes at and find return the new element and leaves
\* the iteration order and the length as they were, for BTree.Add and for TBTree.Add.
C10_ReplaceAtSeparator ==
    (last.op \in {"padd", "tadd"} /\ last.effect = "replace" /\ last.sep) =>
        /\ node_find(heap, UseRoot, Probe(last.key.k)) = [out |-> last.key, found |-> TRUE]
        /\ IterAll(heap, UseRoot) = replaced(last.obs, last.key)
        /\ UseCount = last.before.count

\* a transient add replaced a separator key of a tree of height 3 in place
C10_Witness ==
    /\ Live /\ last.op = "tadd" /\ last.effect = "replace" /\ last.sep
    /\ height(heap, UseRoot) >= 3
    /\ tr.root = last.before.root
    /\ isSeparator(heap, UseRoot, last.key.k)

\* a persistent add replaced a separator key
C10_WitnessPersistent ==
    /\ ~Live /\ last.op = "padd" /\ last.effect = "replace" /\ last.sep
    /\ height(heap, UseRoot) >= 2

\* the nodes, arrays and edit tokens of two heaps are the same
sameObjects(H0, H1) ==
    /\ H0.nodes = H1.nodes /\ H0.keys = H1.keys /\ H0.kids = H1.kids
    /\ H0.edits = H1.edits

\* C11: every call of Contains, At, Find, Length, Add, Delete, Iterator, IteratorFrom
\* or AsPersistent on a transient after its AsPersistent() panics with ErrTafterP and
\* leaves the transient's fields and every node, array and token as they were.
C11_TransientAfterFreeze ==
    [][(tr # NoTransient /\ ~Live /\ last'.op = "frozen" /\ last' # last) =>
          /\ last'.err = ErrTafterP
          /\ tr' = tr
          /\ sameObjects(heap, heap')
          /\ ~heap'.panicked]_vars

\* Add was called on a transient that was edited and then frozen into a new tree of
\* height >= 2, and panicked
C11_Witness ==
    /\ last.op = "frozen" /\ last.effect = "Add" /\ last.err = ErrTafterP
    /\ tr # NoTransient /\ ~Live
    /\ cur.root = tr.root /\ cur.id # snap.id
    /\ height(heap, cur.root) >= 2

\* C12: AsPersistent() of a transient on which no call, or only calls without effect
\* (Add of a stored element, Delete of an absent key), were made returns the tree the
\* transient was made from, the same handle with the same reads.
C12_RoundTrip ==
    (last.op = "freeze" /\ ~last.touched) =>
        /\ cur = tr.orig /\ cur.id = snap.id
        /\ Obs(heap, cur.root, cur.count) = snapObs

\* a transient of a tree of height >= 2 was frozen after calls without effect only
C12_Witness ==
    /\ last.op = "freeze" /\ ~last.touched /\ nops = MaxOps
    /\ cur.id = tr.orig.id /\ tr.version = tr.orig.version
    /\ height(heap, cur.root) >= 2

\* C13: an Add of an element eq to a stored one changes nothing: BTree.Add returns the
\* handle it was called on, TBTree.Add leaves the transient's fields as they were, and
\* the elements are the same, also when the element is a separator of an internal node.
C13_AddIdempotent ==
    /\ (last.op = "padd" /\ last.effect = "noop") =>
           /\ cur = last.before
           /\ IterAll(heap, cur.root) = last.obs
    /\ (last.op = "tadd" /\ last.effect = "noop") =>
           /\ tr = last.before
           /\ IterAll(heap, tr.root) = last.obs

\* t.Add(x).Add(x) from a tree of height >= 2 without x: x became a separator with the
\* first Add and the second Add returned the first one's handle
C13_Witness ==
    /\ PersistentOnly /\ nops = MaxOps
    /\ last.op = "padd" /\ last.effect = "noop" /\ last.sep
    /\ ~snapObs.find[last.key.k].found
    /\ cur.count = snap.count + 1 /\ cur.version = snap.version + 1
    /\ height(heap, cur.root) >= 2

\* t.Add(x) on a transient that stores x
C13_WitnessTransient ==
    /\ Live /\ last.op = "tadd" /\ last.effect = "noop" /\ last.touched
    /\ height(heap, tr.root) >= 2

\* C14: a Delete of a key that is not stored, on the empty tree too, does not fail and
\* changes nothing: BTree.Delete returns the handle it was called on, TBTree.Delete
\* leaves the transient's fields as they were, and the elements are the same.
C14_DeleteIdempotent ==
    /\ ~heap.panicked
    /\ (last.op = "pdel" /\ last.effect = "noop") =>
           /\ cur = last.before
           /\ IterAll(heap, cur.root) = last.obs
    /\ (last.op = "tdel" /\ last.effect = "noop") =>
           /\ tr = last.before
           /\ IterAll(heap, tr.root) = last.obs

\* t.Delete(k).Delete(k) from a tree of height >= 2 that stored k: the second Delete
\* returned the first one's handle
C14_Witness ==
    /\ PersistentOnly /\ nops = MaxOps
    /\ last.op = "pdel" /\ last.effect = "noop"
    /\ snapObs.find[last.key.k].found
    /\ cur.count = snap.count - 1 /\ cur.version = snap.version + 1
    /\ height(heap, snap.root) >= 2

\* a Delete on the empty tree
C14_WitnessEmpty ==
    /\ PersistentOnly /\ last.op = "pdel" /\ last.before.count = 0
    /\ cur = last.before /\ last.obs = <<>>

\* C15: BTree.Add and BTree.Delete return the handle they were called on exactly when
\* the call had no effect; an insert, a replace and a delete of a stored key return
\* another handle.
C15_NewHandleIffEffect ==
    last.op \in {"padd", "pdel"} =>
        ((cur.id = last.before.id) <=> (last.effect = "noop"))

\* a persistent Add replaced an element of a tree of height >= 2 and returned another
\* handle, the tree it was called on still being as it was
C15_Witness ==
    /\ last.op = "padd" /\ last.effect = "replace"
    /\ cur.id # last.before.id /\ cur.count = last.before.count
    /\ IterAll(heap, last.before.root) = last.obs
    /\ height(heap, cur.root) >= 2

\* C16: deleting the stored keys of a tree of height >= 2 one by one, in any order,
\* with BTree.Delete or with TBTree.Delete, never fails, removes one element each time
\* and ends with length 0, an iterator without elements and Contains false for every
\* key; the frozen emptied transient reads the same.
C16_DeleteAll ==
    /\ ~heap.panicked
    /\ UseCount = refSize(ref)
    /\ refSize(ref) = 0 =>
           /\ UseCount = 0
           /\ IterAll(heap, UseRoot) = <<>>
           /\ \A k \in Keys : ~node_find(heap, UseRoot, Probe(k)).found

\* a transient of a tree of height 3 was emptied key by key
C16_Witness ==
    /\ Live /\ refSize(ref) = 0 /\ last.op = "tdel" /\ last.effect = "delete"
    /\ nops = snap.count /\ height(heap, snap.root) >= 3
    /\ TBTree_Length(heap, tr).val = 0

\* a tree of height 3 was emptied with BTree.Delete
C16_WitnessPersistent ==
    /\ tr = NoTransient /\ refSize(ref) = 0 /\ last.op = "pdel"
    /\ nops = snap.count /\ height(heap, snap.root) >= 3
    /\ BTree_Length(cur) = 0

\* Find and At of the handle in use
UseFind(k) ==
    IF Live THEN TBTree_Find(heap, tr, Probe(k)).val ELSE BTree_Find(heap, cur, Probe(k))

UseAt(k) ==
    IF Live THEN TBTree_At(heap, tr, Probe(k)).val ELSE BTree_At(heap, cur, Probe(k))

\* C17: for a key without a cmp-equal stored element Find returns (zero value, false)
\* and At the zero value, without a panic; for a key with a cmp-equal stored element
\* they return that stored element, not the probe, and true; on BTree and on the live
\* TBTree.
C17_NotFoundIsValue ==
    /\ ~heap.panicked
    /\ \A k \in Probes :
          IF stored(leafElems(heap, UseRoot), k) = <<>>
          THEN /\ UseFind(k) = [out |-> Zero, found |-> FALSE]
               /\ UseAt(k) = Zero
          ELSE /\ UseFind(k) = [out |-> stored(leafElems(heap, UseRoot), k)[1],
                                found |-> TRUE]
               /\ UseAt(k) = stored(leafElems(heap, UseRoot), k)[1]

\* a live transient of height >= 2 in which a key between two stored keys is absent
\* and the stored element of another key differs from the probe of that key
C17_Witness ==
    /\ Live /\ height(heap, tr.root) >= 2
    /\ \E k \in Keys :
          /\ ~UseFind(k).found /\ UseFind(k - 1).found /\ UseFind(k + 1).found
    /\ \E k \in Keys : UseFind(k).found /\ UseAt(k) # Probe(k)

\* the same on a persistent tree
C17_WitnessPersistent ==
    /\ PersistentOnly /\ height(heap, cur.root) >= 2
    /\ \E k \in Keys :
          /\ ~UseFind(k).found /\ UseFind(k - 1).found /\ UseFind(k + 1).found
    /\ \E k \in Keys : UseFind(k).found /\ UseAt(k) # Probe(k)

\* s without the element of key k
removed(s, k) == SelectSeq(s, LAMBDA e : e.k # k)

\* C18: Delete(k) removes the stored element that compares equal to k under cmp, also
\* when that element is not eq to k, and leaves every other element in place.
C18_DeleteByCmp ==
    (last.op \in {"pdel", "tdel"} /\ last.effect = "delete") =>
        /\ IterAll(heap, UseRoot) = removed(last.obs, last.key.k)
        /\ Len(IterAll(heap, UseRoot)) = Len(last.obs) - 1
        /\ UseCount = last.before.count - 1
        /\ ~UseFind(last.key.k).found

\* a Delete with a probe of another value than the stored element's removed it from a
\* tree of height >= 2
C18_Witness ==
    /\ last.op = "pdel" /\ last.effect = "delete"
    /\ stored(last.obs, last.key.k) # <<>>
    /\ ~eq(stored(last.obs, last.key.k)[1], last.key)
    /\ height(heap, last.before.root) >= 2
    /\ stored(IterAll(heap, cur.root), last.key.k) = <<>>

\* C19: every Add and Delete on a live transient returns the TBTree it was called on,
\* whether it inserted, replaced, deleted or did nothing.
C19_SameTransientHandle ==
    last.op \in {"tadd", "tdel"} => (Live /\ tr.id = last.before.id /\ tr.id # 0)

\* an Add on a transient split the root and returned the same handle
C19_Witness ==
    /\ Live /\ last.op = "tadd" /\ last.effect = "insert"
    /\ height(heap, tr.root) = height(heap, last.before.root) + 1
    /\ tr.id = last.before.id /\ tr.root # last.before.root

\* the iterators of the handle in use
UseIterator ==
    IF Live THEN TBTree_Iterator(heap, tr).val ELSE BTree_Iterator(heap, cur.root)

UseIteratorFrom(k) ==
    IF Live THEN TBTree_IteratorFrom(heap, tr, Probe(k)).val
    ELSE BTree_IteratorFrom(heap, cur.root, Probe(k))

\* the iterator stands at slot 0 of the root
atRootStart(it) == it.depth = 0 /\ it.stack[1].cur = 0

\* C20: on a tree without elements, fresh or emptied by BTree.Delete or
\* TBTree.Delete, the first HasNext() of Iterator() and of IteratorFrom(k), for every
\* k, is false, the iterator stays at slot 0 of the root leaf, and a loop over it
\* yields nothing and does not panic.
C20_EmptyIteration ==
    (refSize(ref) = 0 /\ UseCount = 0) =>
        /\ isLeafNode(heap, UseRoot) /\ nodeLen(heap, UseRoot) = 0
        /\ ~Iterator_HasNext(heap, UseIterator).res
        /\ atRootStart(Iterator_HasNext(heap, UseIterator).it)
        /\ Iterator_Seq(heap, UseIterator) = <<>>
        /\ \A k \in Probes :
              /\ ~Iterator_HasNext(heap, UseIteratorFrom(k)).res
              /\ atRootStart(Iterator_HasNext(heap, UseIteratorFrom(k)).it)
              /\ Iterator_Seq(heap, UseIteratorFrom(k)) = <<>>

\* a transient was emptied by Delete and iterated
C20_Witness ==
    /\ Live /\ last.op = "tdel" /\ last.effect = "delete"
    /\ refSize(ref) = 0 /\ TBTree_Length(heap, tr).val = 0
    /\ ~Iterator_HasNext(heap, TBTree_IteratorFrom(heap, tr, Probe(1)).val).res

\* the fresh empty tree
C20_WitnessFresh ==
    /\ PersistentOnly /\ nops = 0 /\ BTree_Length(cur) = 0
    /\ ~Iterator_HasNext(heap, BTree_Iterator(heap, cur.root)).res

\* a tree emptied by BTree.Delete
C20_WitnessPersistent ==
    /\ PersistentOnly /\ last.op = "pdel" /\ last.effect = "delete"
    /\ BTree_Length(cur) = 0
    /\ ~Iterator_HasNext(heap, BTree_Iterator(heap, cur.root)).res

(* ---- the shape of a tree ---- *)
\* the trees the client holds a handle of: the current and the kept persistent
\* tree and the transient, live or frozen
HeldTrees ==
    {[root |-> cur.root, count |-> cur.count], [root |-> snap.root, count |-> snap.count]}
    \cup (IF tr = NoTransient THEN {} ELSE {[root |-> tr.root, count |-> tr.count]})

HeldRoots == {t.root : t \in HeldTrees}

RECURSIVE pow(_, _)
pow(b, e) == IF e <= 0 THEN 1 ELSE b * pow(b, e - 1)

\* the number of edges from n down to its leftmost leaf
edges(H, n) == height(H, n) - 1

\* h <= ceil(log_minLen((n + 1) / 2)), that is log_minLen((n + 1) / 2) > h - 1, in
\* integers; a single leaf (h = 0) is within the bound for every n >= 0 as long as
\* 2 / minLen < 1, which the program's minLen of 32 gives
withinHeightBound(h, n) == h = 0 \/ n + 1 > 2 * pow(minLen, h - 1)

RECURSIVE leafDepths(_, _)
\* the depths at which the leaves below n sit, n at depth 0
leafDepths(H, n) ==
    IF H.nodes[n].kind = nodeKindLeaf THEN {0}
    ELSE UNION {{d + 1 : d \in leafDepths(H, childAt(H, n, i))} :
                    i \in 0..(nodeLen(H, n) - 1)}

\* the greatest element under cmp of a non-empty sequence
greatest(s) == CHOOSE e \in {s[i] : i \in 1..Len(s)} :
                   \A i \in 1..Len(s) : cmp(s[i], e) <= 0

\* keys[i] of every internal node below root is eq to the greatest key under
\* children[i]
separatorsAreMax(H, root) ==
    \A n \in Reach(H, root) :
        H.nodes[n].kind = nodeKindInternal =>
            \A i \in 0..(nodeLen(H, n) - 1) :
                /\ leafElems(H, childAt(H, n, i)) # <<>>
                /\ eq(keyAt(H, n, i), greatest(leafElems(H, childAt(H, n, i))))

occupancy(H, root) ==
    \A n \in Reach(H, root) :
        /\ nodeLen(H, n) <= maxLen
        /\ n # root => nodeLen(H, n) >= minLen

\* the first len keys of every node ascend strictly, and the keys under children[i]
\* lie above keys[i-1] and at or below keys[i]
ordered(H, root) ==
    \A n \in Reach(H, root) :
        /\ \A i \in 0..(nodeLen(H, n) - 2) : cmp(keyAt(H, n, i), keyAt(H, n, i + 1)) < 0
        /\ H.nodes[n].kind = nodeKindInternal =>
              \A i \in 0..(nodeLen(H, n) - 1) :
                 LET under == leafElems(H, childAt(H, n, i)) IN
                 \A j \in 1..Len(under) :
                    /\ cmp(under[j], keyAt(H, n, i)) <= 0
                    /\ i > 0 => cmp(under[j], keyAt(H, n, i - 1)) > 0

\* the children of every internal node below root are of one variant, and all
\* leaves below root sit at one depth
uniformDepth(H, root) ==
    /\ Cardinality(leafDepths(H, root)) = 1
    /\ \A n \in Reach(H, root) :
          H.nodes[n].kind = nodeKindInternal =>
             \A i, j \in 0..(nodeLen(H, n) - 1) :
                H.nodes[childAt(H, n, i)].kind = H.nodes[childAt(H, n, j)].kind

\* an internal root has at least two children
rootCollapsed(H, root) ==
    H.nodes[root].kind = nodeKindInternal => nodeLen(H, root) >= 2

\* C21: in every reachable state the height h of every held tree, counted in edges
\* from the root to a leaf (a single leaf has height 0), and its number n of elements
\* satisfy h <= ceil(log_minLen((n + 1) / 2)).
C21_HeightBound ==
    \A t \in HeldTrees : withinHeightBound(edges(heap, t.root), t.count)

\* a transient delete made the root's last two children one and the tree lost a level
C21_Witness ==
    /\ Live /\ last.op = "tdel" /\ last.effect = "delete"
    /\ edges(heap, last.before.root) = 2 /\ edges(heap, tr.root) = 1
    /\ tr.count >= 2 * minLen

\* a persistent tree of height 2 with the fewest elements its occupancy allows
C21_WitnessSparse ==
    /\ tr = NoTransient /\ last.op = "pdel" /\ last.effect = "delete"
    /\ edges(heap, cur.root) = 2 /\ cur.count = 2 * pow(minLen, 2)

\* C22: in every internal node reachable from a held persistent or transient handle,
\* after any sequence of add and delete calls, keys[i] is eq to the greatest key of
\* the subtree children[i] for every i < len.
C22_SeparatorInvariant ==
    \A r \in HeldRoots : separatorsAreMax(heap, r)

\* C23: in every reachable state every node of every held tree has len <= maxLen,
\* and every node other than the root has len >= minLen, after any sequence of add
\* and delete calls on either kind of handle.
C23_Occupancy ==
    \A r \in HeldRoots : occupancy(heap, r)

\* a transient delete took a key from a node at minLen in a tree of three levels
C23_Witness ==
    /\ Live /\ last.op = "tdel" /\ last.effect = "delete"
    /\ height(heap, tr.root) >= 3
    /\ \E n \in Reach(heap, tr.root) : n # tr.root /\ nodeLen(heap, n) = minLen
    /\ \E n \in Reach(heap, last.before.root) :
          /\ isLeafNode(heap, n) /\ n # last.before.root
          /\ nodeLen(heap, n) = minLen
          /\ node_find(heap, n, last.key).found

\* a persistent add split a full leaf
C23_WitnessSplit ==
    /\ ~Live /\ last.op = "padd" /\ last.effect = "insert"
    /\ Cardinality({n \in Reach(heap, cur.root) : isLeafNode(heap, n)})
         > Cardinality({n \in Reach(heap, last.before.root) : isLeafNode(heap, n)})
    /\ \E n \in Reach(heap, last.before.root) :
          isLeafNode(heap, n) /\ nodeLen(heap, n) = maxLen

\* C24: in every node reachable from a held handle the first len keys ascend strictly
\* under cmp, and every key under children[i] is greater than keys[i-1] and at most
\* keys[i]; hence no two stored elements are cmp-equal.
C24_Order ==
    \A r \in HeldRoots :
        /\ ordered(heap, r)
        /\ ascending(leafElems(heap, r))

\* the internal nodes below n
internalsOf(H, n) == {m \in Reach(H, n) : isInternalNode(H, m)}

\* C25: in every reachable state all leaves of every held tree are at the same depth
\* and the children of every internal node are of one variant; no remove is handed
\* a sibling of the other variant (the type assertion on the siblings never fails).
C25_UniformDepth ==
    /\ \A r \in HeldRoots : uniformDepth(heap, r)
    /\ ~heap.panicked

\* a transient delete in a tree of three levels rebalanced two internal nodes: the
\* remove of an internal node was handed its sibling
C25_Witness ==
    /\ Live /\ last.op = "tdel" /\ last.effect = "delete"
    /\ height(heap, last.before.root) = 3
    /\ Cardinality(internalsOf(heap, tr.root))
         < Cardinality(internalsOf(heap, last.before.root))

\* a persistent add split a leaf under an internal node that is not the root
C25_WitnessAdd ==
    /\ ~Live /\ last.op = "padd" /\ last.effect = "insert"
    /\ height(heap, last.before.root) = 3 /\ height(heap, cur.root) = 3
    /\ Cardinality(Reach(heap, cur.root)) > Cardinality(Reach(heap, last.before.root))

rootShape(H, root) ==
    [kind |-> H.nodes[root].kind, len |-> nodeLen(H, root), height |-> height(H, root)]

\* C26: after every persistent and every transient delete, also one that ends in
\* place, an internal root of a held tree has at least 2 children; the first delete
\* on a transient leaves a root of the same kind, len and height as the persistent
\* delete of the same key from the forked tree.
C26_RootCollapse ==
    /\ \A r \in HeldRoots : rootCollapsed(heap, r)
    /\ (Live /\ last.op = "tdel" /\ last.before.root = tr.orig.root) =>
           rootShape(heap, tr.root) = rootShape(heap, shadow.root)

\* a transient delete joined the last two children of the root and the tree lost a
\* level, as the persistent delete of the same key did
C26_Witness ==
    /\ Live /\ last.op = "tdel" /\ last.effect = "delete"
    /\ last.before.root = tr.orig.root
    /\ height(heap, tr.root) < height(heap, last.before.root)
    /\ height(heap, shadow.root) < height(heap, last.before.root)

\* a transient delete that ended in place under an internal root
C26_WitnessInPlace ==
    /\ Live /\ last.op = "tdel" /\ last.effect = "delete"
    /\ tr.root = last.before.root /\ isInternalNode(heap, tr.root)
    /\ tr.count = last.before.count - 1

\* a persistent delete took a level off the tree
C26_WitnessPersistent ==
    /\ tr = NoTransient /\ last.op = "pdel" /\ last.effect = "delete"
    /\ height(heap, cur.root) < height(heap, last.before.root)

\* the nodes of H that hold the keys array a, the children array a
keyOwners(H, a) == {n \in 1..Len(H.nodes) : H.nodes[n].keys = a}
kidOwners(H, a) ==
    {n \in 1..Len(H.nodes) : isInternalNode(H, n) /\ H.nodes[n].children = a}

\* the store w of a call that started in heap H lands in a node, or in an array of
\* a node, that existed in H with an edit token reading false
writesFrozen(H, w) ==
    \/ w.obj = "len" /\ w.id <= Len(H.nodes) /\ ~isEditable(H, w.id)
    \/ w.obj = "keys" /\ w.id <= Len(H.keys)
                      /\ \E n \in keyOwners(H, w.id) : ~isEditable(H, n)
    \/ w.obj = "kids" /\ w.id <= Len(H.kids)
                      /\ \E n \in kidOwners(H, w.id) : ~isEditable(H, n)

\* C27: no call changes the len, a slot of the keys array or a slot of the children
\* array of a node whose edit token reads false when the call starts.
C27_FrozenNodesImmutable ==
    [][\A i \in 1..Len(heap'.log) : ~writesFrozen(heap, heap'.log[i])]_vars

\* the persistent trees: the current and the kept tree, and the tree given the
\* persistent calls while the transient was live
PersistentRoots == {cur.root, snap.root, shadow.root}

\* the transients and their roots
Transients == {t \in {tr, tr2} : t # NoTransient}

\* C28: in every reachable state a node whose edit token reads true is reachable from
\* no persistent tree and from no transient other than the one that owns its token.
C28_SingleOwner ==
    \A n \in 1..Len(heap.nodes) :
        isEditable(heap, n) =>
            /\ \A r \in PersistentRoots : n \notin Reach(heap, r)
            /\ \A t \in Transients :
                  n \in Reach(heap, t.root) => heap.nodes[n].edit = t.edit

\* two live transients of one tree, each with editable nodes of its own under its root
C28_Witness ==
    /\ Live /\ Live2 /\ tr.orig.id = tr2.orig.id
    /\ \E n \in Reach(heap, tr.root) : isEditable(heap, n)
    /\ \E n \in Reach(heap, tr2.root) : isEditable(heap, n)
    /\ last.op \in {"tadd", "tdel", "t2add", "t2del"}

\* the second transient was forked from the frozen first one and edited it
C28_WitnessAfterFreeze ==
    /\ ~Live /\ Live2 /\ tr2.orig.root = tr.root /\ tr.root # tr.orig.root
    /\ \E n \in Reach(heap, tr2.root) : isEditable(heap, n)
    /\ \E n \in Reach(heap, tr2.root) : heap.nodes[n].edit = tr.edit

\* the token of the transient that the step froze
frozenToken(op) == IF op = "freeze" THEN tr.edit ELSE tr2.edit

\* C29: a token is created true, by AsTransient only; the only write to it is the
\* first AsPersistent of its transient, which sets it false for good; the token of
\* Empty reads false in every state; the token of every persistent tree reads false,
\* so the nodes a persistent Add or Delete creates are not editable.
C29_TokenLifecycle ==
    [][/\ ~heap.edits[emptyEdit] /\ ~heap'.edits[emptyEdit]
       /\ Len(heap'.edits) >= Len(heap.edits)
       /\ \A i \in 1..Len(heap'.edits) :
             IF i > Len(heap.edits)
             THEN /\ heap'.edits[i]
                  /\ last'.op \in {"fork", "fork2"}
                  /\ Len(heap'.edits) = Len(heap.edits) + 1
             ELSE heap'.edits[i] # heap.edits[i] =>
                     /\ heap.edits[i] /\ ~heap'.edits[i]
                     /\ last'.op \in {"freeze", "freeze2"}
                     /\ i = frozenToken(last'.op)
       /\ \A t \in {cur', snap', shadow'} : ~heap'.edits[t.edit]
       /\ (last'.op \in {"padd", "pdel"} /\ last' # last) =>
             \A n \in (Len(heap.nodes) + 1)..Len(heap'.nodes) : ~isEditable(heap', n)
      ]_vars

\* AsPersistent was called again on a frozen transient that had been edited: the
\* call was refused and the token stayed false
C29_Witness ==
    /\ last.op = "frozen" /\ last.effect = "AsPersistent" /\ last.err = ErrTafterP
    /\ tr.root # tr.orig.root /\ ~heap.edits[tr.edit]

\* a persistent Add on the tree frozen from a transient made new nodes
C29_WitnessPersistent ==
    /\ last.op = "padd" /\ last.effect = "insert"
    /\ tr # NoTransient /\ cur.edit = tr.edit /\ cur.edit # emptyEdit
    /\ cur.root # last.before.root /\ ~isEditable(heap, cur.root)

(* ---- the calls of add and remove on the nodes of a tree ---- *)
RECURSIVE pathAdd(_, _, _)
\* the nodes whose add is called by root.add(key), from n down
pathAdd(H, n, key) ==
    IF isLeafNode(H, n) THEN {n}
    ELSE IF searchEq(H, n, key).idx >= 0 THEN {n}
    ELSE {n} \cup pathAdd(H, childAt(H, n,
                    Min((-searchEq(H, n, key).idx) - 1, nodeLen(H, n) - 1)), key)

\* the index removeInternal goes down at
removeIdx(H, n, key) ==
    IF search(H, n, key) < 0 THEN (-search(H, n, key)) - 1 ELSE search(H, n, key)

RECURSIVE pathRemove(_, _, _, _, _)
\* the nodes whose remove is called by root.remove(key), each with the siblings it
\* is handed, from n down
pathRemove(H, n, left, right, key) ==
    IF isLeafNode(H, n) \/ removeIdx(H, n, key) = nodeLen(H, n)
    THEN {[n |-> n, left |-> left, right |-> right]}
    ELSE {[n |-> n, left |-> left, right |-> right]}
         \cup pathRemove(H, childAt(H, n, removeIdx(H, n, key)),
                  IF removeIdx(H, n, key) > 0
                  THEN childAt(H, n, removeIdx(H, n, key) - 1) ELSE Nil,
                  IF removeIdx(H, n, key) < nodeLen(H, n) - 1
                  THEN childAt(H, n, removeIdx(H, n, key) + 1) ELSE Nil,
                  key)

\* what n.add returned follows the protocol
addReturnOK(H, n, ret) ==
    /\ ret.status \in {returnUnchanged, returnEarly, returnReplaced, returnOne, returnTwo}
    /\ ret.status = returnEarly => isEditable(H, n)
    /\ ret.status \in {returnReplaced, returnOne} => ret.nodes[1] # Nil
    /\ ret.status = returnTwo => ret.nodes[1] # Nil /\ ret.nodes[2] # Nil

\* what n.remove returned follows the protocol
removeReturnOK(H, n, ret) ==
    /\ ret.status \in {returnUnchanged, returnEarly, returnThree}
    /\ ret.status = returnEarly => isEditable(H, n)
    /\ ret.status = returnThree => ret.nodes[2] # Nil

\* every add that root.add(e) calls, root the root of a tree with this token
addCallOK(H, root, edit, e) ==
    \A n \in pathAdd(H, root, e) : addReturnOK(H, n, node_add(H, n, e, edit))

\* every remove that root.remove(key) calls
removeCallOK(H, root, edit, key) ==
    \A c \in pathRemove(H, root, Nil, Nil, key) :
        removeReturnOK(H, c.n, node_remove(H, c.n, key, c.left, c.right, edit))

\* the status the persistent handle receives has a case in its switch
handledByBTree(status) == status # returnEarly

\* C30: in every Add and Delete call made, on a persistent tree or on a transient,
\* every node-level add returns Unchanged, Early, Replaced, One or Two with the nodes
\* it names, every node-level remove returns Unchanged, Early or Three with a center
\* node, and Early comes only from an editable node; the persistent handle, also the
\* one called while a transient of its tree is live, never receives Early; no call
\* fails on a status without a case.
C30_ReturnProtocol ==
    [][/\ ~heap.panicked /\ ~heap'.panicked
       /\ last'.op = "padd" =>
             /\ addCallOK(heap, cur.root, cur.edit, last'.key)
             /\ handledByBTree(node_add(heap, cur.root, last'.key, cur.edit).status)
       /\ last'.op = "pdel" =>
             /\ removeCallOK(heap, cur.root, cur.edit, last'.key)
             /\ handledByBTree(
                   node_remove(heap, cur.root, last'.key, Nil, Nil, cur.edit).status)
       /\ last'.op = "tadd" =>
             /\ addCallOK(heap, tr.root, tr.edit, last'.key)
             /\ \E H1 \in {TBTree_Add(heap, tr, last'.key).H} :
                   /\ addCallOK(H1, shadow.root, shadow.edit, last'.key)
                   /\ handledByBTree(
                         node_add(H1, shadow.root, last'.key, shadow.edit).status)
       /\ last'.op = "tdel" =>
             /\ removeCallOK(heap, tr.root, tr.edit, last'.key)
             /\ \E H1 \in {TBTree_Delete(heap, tr, last'.key).H} :
                   /\ removeCallOK(H1, shadow.root, shadow.edit, last'.key)
                   /\ handledByBTree(
                         node_remove(H1, shadow.root, last'.key, Nil, Nil,
                                     shadow.edit).status)
      ]_vars

\* a transient delete under a root of three levels ended in place: the leaf's Early
\* went up through two internal nodes to the handle
C30_Witness ==
    /\ Live /\ last.op = "tdel" /\ last.effect = "delete"
    /\ height(heap, tr.root) >= 3 /\ tr.root = last.before.root
    /\ tr.count = last.before.count - 1

\* a persistent add split the root: the handle received Two
C30_WitnessTwo ==
    /\ ~Live /\ last.op = "padd" /\ last.effect = "insert"
    /\ height(heap, cur.root) > height(heap, last.before.root)

\* a transient delete handed three nodes up to the handle
C30_WitnessThree ==
    /\ Live /\ last.op = "tdel" /\ last.effect = "delete"
    /\ tr.root # last.before.root /\ isInternalNode(heap, tr.root)

(* ---- iterators ---- *)
\* C31: an iterator taken from a persistent tree emits the sequence it would have
\* emitted with nothing applied, whatever persistent and transient add and delete
\* calls are made on the trees and transients derived from that tree between its
\* HasNext/Next calls: at every moment the elements emitted so far followed by the
\* elements still to come are that sequence, and no Next panics
C31_SnapshotIterator ==
    rd.pc \in {"iter", "done"} =>
        /\ ~rd.panicked
        /\ rd.out \o (IF rd.pc = "iter" THEN Iterator_Seq(heap, rd.it) ELSE <<>>) = rd.want

\* an element was emitted, then a transient call with an effect was made, and
\* elements remain, one of which the tree in use no longer holds
C31_Witness ==
    /\ rd.pc = "iter" /\ Len(rd.out) > 0 /\ nops > rd.lo
    /\ last.op \in {"tadd", "tdel"} /\ last.effect # "noop"
    /\ \E i \in 1..Len(rd.want) :
         /\ i > Len(rd.out)
         /\ ~node_find(heap, UseRoot, rd.want[i]).found

\* the same with a persistent call, the loop then ran to its end
C31_WitnessPersistent ==
    /\ rd.pc = "done" /\ Len(rd.out) > 1 /\ rd.op = "from"
    /\ last.op \in {"padd", "pdel"} /\ last.effect # "noop"
    /\ rd.out # IterFrom(heap, cur.root, rd.key.k)

RECURSIVE findFirst_slots(_, _, _)
\* the child slots <<node, index>> that the descent of findFirst(from) reads from
\* node n down: n.children[first] of every internal node it does not stop at
findFirst_slots(H, n, from) ==
    IF H.nodes[n].kind = nodeKindLeaf THEN {}
    ELSE LET first == searchFirst(H, n, from) IN
         IF first >= sizeOfChildArray(H, n) THEN {}
         ELSE {<<n, first>>}
              \cup (IF childAt(H, n, first) = Nil THEN {}
                    ELSE findFirst_slots(H, childAt(H, n, first), from))

\* C32: the descent of iteratorFrom(from) stops at an internal node whose first
\* index i with keys[i] >= from is not below the node's len, and never reads a
\* child slot at an index >= len, also in nodes a transient delete shrank in place
C32_SeekStopRule ==
    \A root \in HeldRoots : \A k \in Probes :
        \A s \in findFirst_slots(heap, root, Probe(k)) : s[2] < nodeLen(heap, s[1])

(* ---- splitting and rebalancing ---- *)
\* the index internalNode.add goes down at, for a key not among n's keys
addIns(H, n, key) == Min((-searchEq(H, n, key).idx) - 1, nodeLen(H, n) - 1)

\* n.add(key) splits n: n is a full internal node and the child it goes down to
\* hands back two nodes
splitsInternal(H, n, key, edit) ==
    /\ isInternalNode(H, n) /\ nodeLen(H, n) = maxLen
    /\ searchEq(H, n, key).idx < 0
    /\ node_add(H, childAt(H, n, addIns(H, n, key)), key, edit).status = returnTwo

\* the half the leaf's split gives its left node
leafFirstHalf(len) == (len + 1) \div 2

\* the half the internal node's split gives its left node
internalFirstHalf(len, ins) ==
    IF ins + 1 = (len + 1) \div 2 THEN (len + 1) \div 2 + 1 ELSE (len + 1) \div 2

\* n.add(key) returns two nodes, the left one of leftLen entries, which together
\* hold n's entries in order with the two nodes of the child in place of the child
splitShape(H, n, key, edit, leftLen) ==
    LET ins == addIns(H, n, key)
        len == nodeLen(H, n)
        c == node_add(H, childAt(H, n, ins), key, edit)
        r == internalNode_add(H, n, key, edit)
        l1 == nodeLen(r.H, r.nodes[1])
        l2 == nodeLen(r.H, r.nodes[2])
    IN /\ r.status = returnTwo /\ r.nodes[1] # Nil /\ r.nodes[2] # Nil
       /\ l1 = leftLen /\ l2 = len + 1 - leftLen
       /\ Slice(kidsOf(r.H, r.nodes[1]), 0, l1) \o Slice(kidsOf(r.H, r.nodes[2]), 0, l2)
            = Slice(kidsOf(H, n), 0, ins) \o <<c.nodes[1], c.nodes[2]>>
              \o Slice(kidsOf(H, n), ins + 1, len)
       /\ Slice(keysOf(r.H, r.nodes[1]), 0, l1) \o Slice(keysOf(r.H, r.nodes[2]), 0, l2)
            = Slice(keysOf(H, n), 0, ins)
              \o <<maxKey(c.H, c.nodes[1]), maxKey(c.H, c.nodes[2])>>
              \o Slice(keysOf(H, n), ins + 1, len)

\* the root and token of the tree the last Add was called on
addedTo(op) == IF op = "padd" THEN cur ELSE tr

\* C33 as stated: in every Add call made, a full internal node whose child splits
\* returns two nodes, the left of exactly floor((len+1)/2) entries as in the leaf's
\* split and the right of the rest, which hold the node's entries in order with the
\* child's two nodes at ins and ins+1
C33_InternalSplitAsStated ==
    [][last'.op \in {"padd", "tadd"} =>
         \A n \in pathAdd(heap, addedTo(last'.op).root, last'.key) :
            splitsInternal(heap, n, last'.key, addedTo(last'.op).edit)
            => splitShape(heap, n, last'.key, addedTo(last'.op).edit,
                          leafFirstHalf(nodeLen(heap, n)))
      ]_vars

\* C33, amended: the same with the left node of floor((len+1)/2) entries, and of one
\* more when ins+1 = floor((len+1)/2), so that the child's two nodes go to one node
C33_InternalSplit ==
    [][last'.op \in {"padd", "tadd"} =>
         \A n \in pathAdd(heap, addedTo(last'.op).root, last'.key) :
            splitsInternal(heap, n, last'.key, addedTo(last'.op).edit)
            => splitShape(heap, n, last'.key, addedTo(last'.op).edit,
                          internalFirstHalf(nodeLen(heap, n), addIns(heap, n, last'.key)))
      ]_vars

\* an add split a full root whose second child split: the new root's left child has
\* floor((len+1)/2) + 1 entries
C33_Witness ==
    /\ last.op \in {"padd", "tadd"} /\ last.effect = "insert"
    /\ height(heap, last.before.root) = 2 /\ nodeLen(heap, last.before.root) = maxLen
    /\ height(heap, UseRoot) = 3
    /\ nodeLen(heap, childAt(heap, UseRoot, 0)) = leafFirstHalf(maxLen) + 1

\* the same with a split at another child: the left child has floor((len+1)/2) entries
C33_WitnessEven ==
    /\ last.op \in {"padd", "tadd"} /\ last.effect = "insert"
    /\ height(heap, last.before.root) = 2 /\ nodeLen(heap, last.before.root) = maxLen
    /\ height(heap, UseRoot) = 3
    /\ nodeLen(heap, childAt(heap, UseRoot, 0)) = leafFirstHalf(maxLen)

\* the newLen of c.n.remove(key) when the removal goes on to the rebalance switch,
\* -1 when it returns before (key not found, or the child ended Unchanged or Early)
removeNewLen(H, c, key, edit) ==
    IF isLeafNode(H, c.n)
    THEN IF search(H, c.n, key) < 0 THEN -1 ELSE nodeLen(H, c.n) - 1
    ELSE IF removeIdx(H, c.n, key) = nodeLen(H, c.n) THEN -1
    ELSE LET idx == removeIdx(H, c.n, key)
             leftChild == IF idx > 0 THEN childAt(H, c.n, idx - 1) ELSE Nil
             rightChild == IF idx < nodeLen(H, c.n) - 1 THEN childAt(H, c.n, idx + 1)
                           ELSE Nil
             ret == node_remove(H, childAt(H, c.n, idx), key, leftChild, rightChild, edit)
         IN IF ret.status \in {returnUnchanged, returnEarly} THEN -1
            ELSE nodeLen(H, c.n) - 1
                 - (IF leftChild # Nil THEN 1 ELSE 0)
                 - (IF rightChild # Nil THEN 1 ELSE 0)
                 + Cardinality({i \in 1..3 : ret.nodes[i] # Nil})

\* the removal leaves c.n, a node with a sibling, below minLen
underflows(H, c, key, edit) ==
    /\ c.left # Nil \/ c.right # Nil
    /\ removeNewLen(H, c, key, edit) >= 0
    /\ removeNewLen(H, c, key, edit) < minLen

\* the elements under the nodes of a triple, left to right
elemsOf(H, nodes) ==
    (IF nodes[1] = Nil THEN <<>> ELSE leafElems(H, nodes[1]))
    \o (IF nodes[2] = Nil THEN <<>> ELSE leafElems(H, nodes[2]))
    \o (IF nodes[3] = Nil THEN <<>> ELSE leafElems(H, nodes[3]))

\* c.n.remove(key) joins iff a sibling has room, the left one first, and borrows
\* otherwise; the nodes it returns hold what the inputs held but the key, in order
rebalanceOK(H, c, key, edit) ==
    LET newLen == removeNewLen(H, c, key, edit)
        r == node_remove(H, c.n, key, c.left, c.right, edit)
        leftLen == IF c.left = Nil THEN 0 ELSE nodeLen(H, c.left)
        rightLen == IF c.right = Nil THEN 0 ELSE nodeLen(H, c.right)
        joinsLeft == c.left # Nil /\ leftLen + newLen < maxLen
        joinsRight == c.right # Nil /\ rightLen + newLen < maxLen
    IN /\ r.status = returnThree /\ r.nodes[2] # Nil
       /\ elemsOf(r.H, r.nodes) = removed(elemsOf(H, <<c.left, c.n, c.right>>), key.k)
       /\ IF joinsLeft
          THEN /\ r.nodes[1] = Nil /\ r.nodes[3] = c.right
               /\ nodeLen(r.H, r.nodes[2]) = leftLen + newLen
          ELSE IF joinsRight
          THEN /\ r.nodes[1] = c.left /\ r.nodes[3] = Nil
               /\ nodeLen(r.H, r.nodes[2]) = newLen + rightLen
          ELSE \/ /\ c.left # Nil /\ r.nodes[1] # Nil /\ r.nodes[3] = c.right
                  /\ nodeLen(r.H, r.nodes[1]) = (leftLen + newLen) \div 2
                  /\ nodeLen(r.H, r.nodes[2])
                       = leftLen + newLen - (leftLen + newLen) \div 2
               \/ /\ c.right # Nil /\ r.nodes[3] # Nil /\ r.nodes[1] = c.left
                  /\ nodeLen(r.H, r.nodes[2]) = (newLen + rightLen) \div 2
                  /\ nodeLen(r.H, r.nodes[3])
                       = newLen + rightLen - (newLen + rightLen) \div 2

\* the tree the last Delete was called on
deletedFrom(op) == IF op = "pdel" THEN cur ELSE tr

\* C34: in every Delete call made, a node with a sibling that the removal leaves
\* with newLen < minLen joins with a sibling iff a sibling's len + newLen < maxLen,
\* the left one tried first, giving one node with the entries of both and nil for the
\* node joined away; otherwise it borrows, giving two nodes of floor(total/2) and
\* total - floor(total/2) entries, total = sibling len + newLen; the nodes returned
\* hold the elements of the inputs without the deleted key, in order
C34_Rebalance ==
    [][last'.op \in {"pdel", "tdel"} =>
         \A c \in pathRemove(heap, deletedFrom(last'.op).root, Nil, Nil, last'.key) :
            underflows(heap, c, last'.key, deletedFrom(last'.op).edit)
            => rebalanceOK(heap, c, last'.key, deletedFrom(last'.op).edit)
      ]_vars

\* a persistent delete took a leaf of minLen elements below minLen, no sibling had
\* room: it borrowed
C34_Witness ==
    /\ last.op = "pdel" /\ last.effect = "delete"
    /\ \E c \in pathRemove(heap, last.before.root, Nil, Nil, last.key) :
         /\ isLeafNode(heap, c.n) /\ nodeLen(heap, c.n) = minLen
         /\ c.left # Nil \/ c.right # Nil
         /\ c.left # Nil => nodeLen(heap, c.left) + minLen - 1 >= maxLen
         /\ c.right # Nil => nodeLen(heap, c.right) + minLen - 1 >= maxLen

\* a persistent delete took an internal node below minLen: it joined with a sibling
\* or borrowed from one
C34_WitnessInternal ==
    /\ last.op = "pdel" /\ last.effect = "delete"
    /\ \E c \in pathRemove(heap, last.before.root, Nil, Nil, last.key) :
         /\ isInternalNode(heap, c.n)
         /\ underflows(heap, c, last.key, last.before.edit)

\* a transient delete joined two leaves
C34_WitnessJoin ==
    /\ last.op = "tdel" /\ last.effect = "delete"
    /\ Cardinality({n \in Reach(heap, tr.root) : isLeafNode(heap, n)})
         < Cardinality({n \in Reach(heap, last.before.orig.root) : isLeafNode(heap, n)})

(* ---- the version counter ---- *)
\* the version of the handle in use
UseVersion == IF Live THEN tr.version ELSE cur.version

\* 1 for a call that changed the tree, 0 for a no-op
versionStep(effect) == IF effect = "noop" THEN 0 ELSE 1

\* C35: along every chain of calls the version of the handle in use never goes
\* down; an add or delete with an effect (insert, replace, delete of a stored key)
\* gives the version before + 1, a no-op add or delete leaves root, count and
\* version as they were, AsTransient and AsPersistent carry the version over, and
\* a call refused by a frozen transient leaves its version alone
C35_Version ==
    [][/\ UseVersion' >= UseVersion
       /\ last'.op \in {"padd", "pdel"} =>
             /\ cur'.version = cur.version + versionStep(last'.effect)
             /\ last'.effect = "noop" =>
                   cur'.root = cur.root /\ cur'.count = cur.count
       /\ last'.op \in {"tadd", "tdel"} =>
             /\ tr'.version = tr.version + versionStep(last'.effect)
             /\ last'.effect = "noop" =>
                   tr'.root = tr.root /\ tr'.count = tr.count
       /\ last'.op = "fork" => tr'.version = cur.version
       /\ last'.op = "freeze" => cur'.version = tr.version
       /\ last'.op = "frozen" => tr'.version = tr.version /\ cur'.version = cur.version
      ]_vars

\* a transient add inserted in place, the root stayed: the version went up by one;
\* the transient is two versions ahead of the tree it was forked from
C35_Witness ==
    /\ Live /\ last.op = "tadd" /\ last.effect = "insert"
    /\ tr.root = last.before.root
    /\ tr.version = last.before.version + 1
    /\ tr.version = tr.orig.version + 2

\* a transient with two effective calls was frozen: the tree has its version
C35_WitnessFreeze ==
    /\ last.op = "freeze" /\ cur.version = tr.version
    /\ cur.version = snap.version + 2

\* a no-op delete on a persistent tree after a replace
C35_WitnessNoop ==
    /\ last.op = "pdel" /\ last.effect = "noop" /\ cur = last.before
    /\ cur.version = snap.version + 1 /\ cur.count = snap.count

(* ---- the iterator's stack ---- *)
RECURSIVE HasNext_depths(_, _)
\* the values i.depth takes during i.HasNext(), the one it starts with included
HasNext_depths(H, it) ==
    LET state == it.stack[it.depth + 1] IN
    {it.depth} \cup
    IF H.nodes[state.n].kind = nodeKindLeaf
    THEN IF state.cur < nodeLen(H, state.n) \/ it.depth = 0 THEN {}
         ELSE HasNext_depths(H, popNode(it))
    ELSE IF state.cur < nodeLen(H, state.n)
         THEN LET child == childAt(H, state.n, state.cur)
                  it2 == pushNode([it EXCEPT !.stack[it.depth + 1].cur = @ + 1], child)
              IN IF H.nodes[child].kind = nodeKindLeaf THEN {it2.depth}
                 ELSE HasNext_depths(H, it2)
         ELSE IF it.depth = 0 THEN {} ELSE HasNext_depths(H, popNode(it))

RECURSIVE findFirst_depths(_, _, _)
\* the values i.depth takes during i.findFirst(from)
findFirst_depths(H, it, from) ==
    LET state == it.stack[it.depth + 1]
        first == searchFirst(H, state.n, from)
    IN {it.depth} \cup
       IF H.nodes[state.n].kind = nodeKindLeaf \/ first >= sizeOfChildArray(H, state.n)
       THEN {}
       ELSE findFirst_depths(H,
              pushNode([it EXCEPT !.stack[it.depth + 1].cur = first + 1],
                       childAt(H, state.n, first)),
              from)

RECURSIVE loop_depths(_, _)
\* the values i.depth takes during for i.HasNext() { i.Next() }
loop_depths(H, it) ==
    LET hn == Iterator_HasNext(H, it)
        nx == Iterator_Next(H, hn.it)
    IN HasNext_depths(H, it) \cup
       IF hn.res /\ nx.ok THEN loop_depths(H, nx.it) ELSE {}

\* the stack indexes the iterator may use on the tree `root`
stackRange(H, root) == 0..Min(maxIterDepth - 1, edges(H, root))

\* the keys sought: below and above every key, and at and next to the key of the
\* last call
seekProbes == {k \in Probes : k \in {0, NumKeys + 1, last.key.k - 1, last.key.k, last.key.k + 1}}

C36_WitnessEmpty ==
    /\ last.effect = "delete" /\ UseCount = 0
    /\ loop_depths(heap, makeIterator(UseRoot)) = {0}

\* C37: on a non-empty tree the first Next of a fresh Iterator(), with no HasNext
\* call by the caller, returns the least element; the first Next of a fresh
\* IteratorFrom(k) returns the least element >= k when there is one
C37_NextAfterConstruction ==
    /\ refSeqFrom(ref, 1) # <<>> =>
          /\ Iterator_Next(heap, BTree_Iterator(heap, UseRoot)).ok
          /\ Iterator_Next(heap, BTree_Iterator(heap, UseRoot)).out = Head(refSeqFrom(ref, 1))
    /\ \A k \in Probes :
          refSeqFrom(ref, k) # <<>> =>
             /\ Iterator_Next(heap, BTree_IteratorFrom(heap, UseRoot, Probe(k))).ok
             /\ Iterator_Next(heap, BTree_IteratorFrom(heap, UseRoot, Probe(k))).out
                   = Head(refSeqFrom(ref, k))

\* a tree of height >= 2 whose least element was just deleted through a transient:
\* the first Next of Iterator() is the next element, the one of IteratorFrom of the
\* deleted key as well, and the greatest key is in another leaf
C37_Witness ==
    /\ Live /\ last.op = "tdel" /\ last.effect = "delete"
    /\ height(heap, UseRoot) >= 2
    /\ \A e \in {last.obs[i] : i \in 1..Len(last.obs)} : e.k >= last.key.k
    /\ Iterator_Next(heap, BTree_Iterator(heap, UseRoot)).out.k > last.key.k
    /\ Iterator_Next(heap, BTree_IteratorFrom(heap, UseRoot, last.key)).out
          = Iterator_Next(heap, BTree_Iterator(heap, UseRoot)).out

\* a seek between two stored keys of different leaves
C37_WitnessBetween ==
    /\ last.effect = "delete" /\ height(heap, UseRoot) >= 2
    /\ refSeqFrom(ref, last.key.k) # <<>>
    /\ \E i \in 0..(nodeLen(heap, UseRoot) - 2) :
          /\ keyAt(heap, UseRoot, i).k < last.key.k
          /\ Head(refSeqFrom(ref, last.key.k))
                = keyAt(heap, childAt(heap, UseRoot, i + 1), 0)
          /\ isLeafNode(heap, childAt(heap, UseRoot, i + 1))
          /\ search(heap, childAt(heap, UseRoot, i), last.key) < 0

(* ---- C38: editable ancestry ---- *)
\* every internal node below root that has a child carrying the token `edit`
\* carries it too
editableAncestry(H, root, edit) ==
    \A n \in Reach(H, root) :
        H.nodes[n].kind = nodeKindInternal =>
            \A i \in 0..(nodeLen(H, n) - 1) :
                H.nodes[childAt(H, n, i)].edit = edit => H.nodes[n].edit = edit

\* the ancestry alone, of either transient
C38_Ancestry ==
    /\ Live => editableAncestry(heap, tr.root, tr.edit)
    /\ Live2 => editableAncestry(heap, tr2.root, tr2.edit)

C38_Witness ==
    /\ Live /\ nops = 2 /\ last.op \in {"tadd", "tdel"}
    /\ last.effect \in {"insert", "delete"}
    /\ tr.root = last.before.root
    /\ height(heap, tr.root) = 3
    /\ \E n \in Reach(heap, tr.root) :
          /\ heap.nodes[n].edit = tr.edit /\ heap.nodes[n].kind = nodeKindLeaf
    /\ \E n \in Reach(heap, tr.root) :
          /\ heap.nodes[n].edit # tr.edit /\ heap.nodes[n].kind = nodeKindLeaf

(* ---- C39: two transients of one persistent tree ---- *)
\* the reads of a tree whose contents are the ascending sequence s
readsOf(s) ==
    [len |-> Len(s),
     find |-> [k \in Keys |->
                 IF stored(s, k) # <<>> THEN [out |-> stored(s, k)[1], found |-> TRUE]
                 ELSE [out |-> Zero, found |-> FALSE]],
     iter |-> s,
     from |-> [k \in Probes |-> tailFrom(s, k)]]

\* s after add(e)
added(s, e) ==
    SelectSeq(s, LAMBDA x : x.k < e.k) \o <<e>> \o SelectSeq(s, LAMBDA x : x.k > e.k)

\* both transients were made from the same persistent tree
sameOrigin == tr # NoTransient /\ tr2 # NoTransient /\ tr.orig.id = tr2.orig.id

\* a call on one of the two transients leaves every read of the other's tree as it
\* was, and gives its own tree the contents the call alone gives them
isolatedCall ==
    sameOrigin =>
        /\ last'.op \in {"tadd", "tdel", "freeze"} =>
               Obs(heap', tr2'.root, tr2'.count) = Obs(heap, tr2.root, tr2.count)
        /\ last'.op \in {"t2add", "t2del", "freeze2"} =>
               Obs(heap', tr'.root, tr'.count) = Obs(heap, tr.root, tr.count)
        /\ last'.op = "tadd" =>
               Obs(heap', tr'.root, tr'.count)
                   = readsOf(added(IterAll(heap, tr.root), last'.key))
        /\ last'.op = "tdel" =>
               Obs(heap', tr'.root, tr'.count)
                   = readsOf(removed(IterAll(heap, tr.root), last'.key.k))
        /\ last'.op = "t2add" =>
               Obs(heap', tr2'.root, tr2'.count)
                   = readsOf(added(IterAll(heap, tr2.root), last'.key))
        /\ last'.op = "t2del" =>
               Obs(heap', tr2'.root, tr2'.count)
                   = readsOf(removed(IterAll(heap, tr2.root), last'.key.k))
        /\ last'.op = "freeze" =>
               Obs(heap', cur'.root, cur'.count) = Obs(heap, tr.root, tr.count)
        /\ last'.op = "freeze2" =>
               Obs(heap', snap'.root, snap'.count) = Obs(heap, tr2.root, tr2.count)

\* C39: for two transients made from the same persistent tree, under every
\* interleaving of whole add, delete and freeze calls on the two, a call on one leaves
\* the contents of the other (and of the tree it froze to) as they were, and the
\* contents of each are those its own calls alone give the original tree.
C39_TransientIsolation == [][isolatedCall]_vars

(* ---- C40: HasNext called again ---- *)
\* HasNext called three times in a row
HasNext_thrice(H, it) ==
    Iterator_HasNext(H, Iterator_HasNext(H, Iterator_HasNext(H, it).it).it)

RECURSIVE hasNextAgain(_, _)
\* at every position of the loop over it, the second and the third HasNext in a row
\* answer as the first and leave the iterator as the first left it
hasNextAgain(H, it) ==
    LET h1 == Iterator_HasNext(H, it)
        h2 == Iterator_HasNext(H, h1.it)
        nx == Iterator_Next(H, h2.it)
    IN /\ h2 = h1
       /\ Iterator_HasNext(H, h2.it) = h1
       /\ h1.res => (nx.ok /\ hasNextAgain(H, nx.it))

RECURSIVE Seq_thrice(_, _)
\* the loop of Seq with three calls of HasNext before every Next
Seq_thrice(H, it) ==
    LET hn == HasNext_thrice(H, it)
        nx == Iterator_Next(H, hn.it)
    IN IF ~hn.res THEN <<>>
       ELSE IF nx.ok THEN <<nx.out>> \o Seq_thrice(H, nx.it) ELSE <<indexPanic>>

\* the iterators the handle in use gives: before the first HasNext, from the start
\* and from a key
newIterators ==
    {makeIterator(UseRoot), BTree_Iterator(heap, UseRoot)}
        \cup {BTree_IteratorFrom(heap, UseRoot, Probe(k)) : k \in seekProbes}

\* C40: HasNext called again without a Next in between returns the answer of the
\* first call and leaves the iterator where the first call left it, at every position
\* of an iteration, and a loop that calls HasNext three times before every Next
\* yields the elements of the loop that calls it once: none skipped, none repeated.
C40_HasNextIdempotent ==
    \A it \in newIterators :
        /\ hasNextAgain(heap, it)
        /\ Seq_thrice(heap, it) = Iterator_Seq(heap, it)

\* a tree of three levels with an iterator from a stored key in its middle: the
\* repeated HasNext crosses from a leaf to the next and from a subtree to the next
C40_Witness ==
    /\ height(heap, UseRoot) = 3
    /\ last.op \in {"tadd", "tdel", "padd", "pdel"}
    /\ Len(Seq_thrice(heap, BTree_IteratorFrom(heap, UseRoot, last.key))) >= 6
    /\ Len(Seq_thrice(heap, BTree_IteratorFrom(heap, UseRoot, last.key))) < UseCount

\* the empty tree: the first HasNext answers false and so does every later one
C40_WitnessEmpty ==
    /\ UseCount = 0
    /\ ~Iterator_HasNext(heap, makeIterator(UseRoot)).res
    /\ ~HasNext_thrice(heap, makeIterator(UseRoot)).res

====
